---- MODULE Spec2Model ----
(***************************************************************************)
(* A model of the measurement graph engine of PCBA_Test_GUI_v2:            *)
(*   - MeasurementGraphGenerator (graph_generator.py): prepare_data, the    *)
(*     rendered point collections, selection, point deletion and undo;      *)
(*   - GraphPage (graph_page.py): generation requests, the query worker     *)
(*     (database_worker.py), plot generation and the plot cache;            *)
(*   - hit-testing of the cursor against the rendered items.                *)
(* Spec follows deletions and undo on the cached standard plots, SpecPage   *)
(* the generation flow of the page, SpecHit one hit test.                   *)
(* Point indices are 0-based as in the Python code; TLA+ sequences are      *)
(* 1-based, so the point with index i of a collection is element i+1.       *)
(***************************************************************************)
EXTENDS Integers, Sequences, FiniteSets, TLC

(***************************************************************************)
(* Bounds of the model.                                                     *)
(***************************************************************************)
\* the largest number of measurement records a query hands to the page
MaxMeas == 3
\* the number of reset_deletions() calls followed in one behaviour
MaxUndo == 1

\* the values the grouping field takes
Groups == {"A", "B"}

\* the display types cached in standard mode (update_display_type_options)
DisplayTypes == {"Scatter", "Line", "Histogram"}
\* Python's None for an item reference and for an index
NoItem == 0
NoIndex == 0 - 1

\* point sizes in tenths of the base size: ScatterPlotItem size, 1.8 x when selected
BaseSize == 10
SelectedSize == 18

(***************************************************************************)
(* Measurement records: id, the value of the grouping field, and whether    *)
(* the record carries a plot series (has_plot and plot_data).               *)
(***************************************************************************)
\* float(m.measurement)
ValueOf(m) == 10 * m.id
\* m.created_at.timestamp(): queries return the newest record first
TimestampOf(m) == 200 - m.id

VARIABLES
    measurements,   \* GraphPage.current_measurements: the list handed to generate_graphs
    group_by,       \* config.group_by_field is set (TRUE) or None (FALSE)
    gen,            \* display type -> the MeasurementGraphGenerator of cached_plots[type]
    nextId,         \* the next fresh object identity id(item)
    undos,          \* reset_deletions() calls so far
    last,           \* history: the last operation, its arguments and whether it raised
    pre,            \* history: gen as it was before the last operation
    \* GraphPage: query, generation and the plot cache
    current_mode,   \* GraphPage.current_mode
    combo,          \* display_graph_type_comboBox.currentText()
    cached_plots,   \* GraphPage.cached_plots: display type -> plot widget
    current_plot,   \* GraphPage.current_plot
    progress_dialog,\* GraphPage.progress_dialog, the QProgressDialog made last
    query_thread,   \* GraphPage.query_thread: the request whose QThread it refers to, 0 for None
    workers,        \* request -> its DatabaseQueryWorker, while its run() executes
    queue,          \* worker signals queued for the GUI thread, oldest first
    stack,          \* the generate_graphs() activations of the GUI thread, innermost last
    nreq,           \* generation requests started so far
    prepares,       \* prepare_data() calls so far
    superseded,     \* history: requests that were in flight when a newer one started
    voided,         \* history: requests whose query was cancelled in its row loop or
                    \* matched no row
    crashed,        \* the process was aborted
    event,          \* history: the last operation of the user on the page
    \* hit-testing
    scene,          \* plot_widget.listDataItems(): the rendered items in render order
    cursor,         \* the cursor position in scene (pixel) coordinates
    found,          \* the result of _find_nearest_point
    \* interaction with one plot widget
    ui,             \* plot_widget.graph_generator and the items of the widget
    shot,           \* history: the last cursor or click event and the menus it raised
    \* the data pipeline as functions
    arg,            \* the arguments of the call
    result          \* what the call returned

sessionVars == <<measurements, group_by, gen, nextId, undos, last, pre>>
pageVars == <<current_mode, combo, cached_plots, current_plot, progress_dialog, query_thread,
              workers, queue, stack, nreq, prepares, superseded, voided, crashed, event>>
hitVars == <<scene, cursor, found>>
uiVars == <<ui, shot>>
calcVars == <<arg, result>>
vars == <<sessionVars, pageVars, hitVars, uiVars, calcVars>>

\* the page before any generation request; also the page part of a behaviour that
\* follows the generators of one finished generation alone
PageAtStart ==
    /\ current_mode = "Standard"
    /\ combo = "Scatter"
    /\ cached_plots = <<>>
    /\ current_plot = [req |-> 0, mode |-> "none", key |-> "none"]
    /\ progress_dialog = [req |-> 0, visible |-> FALSE, maximum |-> 0, value |-> 0]
    /\ query_thread = 0
    /\ workers = <<>>
    /\ queue = <<>>
    /\ stack = <<>>
    /\ nreq = 0
    /\ prepares = 0
    /\ superseded = {}
    /\ voided = {}
    /\ crashed = FALSE
    /\ event = [op |-> "none", req |-> 0, key |-> "none"]

\* no plot is hit-tested
NoScene ==
    /\ scene = <<>>
    /\ cursor = <<0, 0>>
    /\ found = [item |-> 0, idx |-> 0 - 1]

\* no plot widget is interacted with
NoUi ==
    /\ ui = <<>>
    /\ shot = <<>>

\* no function of the data pipeline is called
NoCalc ==
    /\ arg = <<>>
    /\ result = <<>>

(***************************************************************************)
(* get_grouped_data: groups keyed by field value in first-encountered order *)
(***************************************************************************)
RECURSIVE GroupKeys(_)
GroupKeys(ms) ==
    IF ms = <<>> THEN <<>>
    ELSE LET rest == GroupKeys(SubSeq(ms, 1, Len(ms) - 1))
             key == ms[Len(ms)].grp
         IN IF \E i \in 1..Len(rest) : rest[i] = key THEN rest ELSE Append(rest, key)

get_grouped_data(ms) ==
    LET keys == GroupKeys(ms)
    IN [k \in 1..Len(keys) |->
            [name |-> keys[k], measurements |-> SelectSeq(ms, LAMBDA m : m.grp = keys[k])]]

(***************************************************************************)
(* _extract_standard_data: one point per scalar measurement; x is the       *)
(* global index for an index-based scatter, else the x-axis field value.    *)
(***************************************************************************)
RECURSIVE ScalarIndices(_, _)
\* the 0-based positions of the measurements that carry no plot series
ScalarIndices(ms, from) ==
    IF from > Len(ms) THEN <<>>
    ELSE IF ms[from].plot THEN ScalarIndices(ms, from + 1)
    ELSE <<from - 1>> \o ScalarIndices(ms, from + 1)

x_axis_use_indices == TRUE

_extract_standard_data(ms, start_x_index, graph_type) ==
    LET idxs == ScalarIndices(ms, 1)
    IN [x_data |-> [k \in 1..Len(idxs) |->
                        IF x_axis_use_indices /\ graph_type = "Scatter"
                        THEN start_x_index + (k - 1)
                        ELSE TimestampOf(ms[idxs[k] + 1])],
        y_data |-> [k \in 1..Len(idxs) |-> ValueOf(ms[idxs[k] + 1])],
        measurement_indices |-> idxs]

_prepare_group_data(group, start_x_index, graph_type) ==
    LET ex == _extract_standard_data(group.measurements, start_x_index, graph_type)
    IN [name |-> group.name,
        measurements |-> group.measurements,
        plot_measurements |-> SelectSeq(group.measurements, LAMBDA m : m.plot),
        x_data |-> ex.x_data,
        y_data |-> ex.y_data,
        measurement_indices |-> ex.measurement_indices]

RECURSIVE PrepareGroupsNoGap(_, _, _)
\* PrepareGroups with global_x_index += num_points, the gap between groups left out
PrepareGroupsNoGap(groups, global_x_index, graph_type) ==
    IF groups = <<>> THEN <<>>
    ELSE LET gd == _prepare_group_data(Head(groups), global_x_index, graph_type)
         IN <<gd>> \o PrepareGroupsNoGap(Tail(groups), global_x_index + Len(gd.x_data),
                                         graph_type)

RECURSIVE PrepareGroups(_, _, _)
\* the loop of prepare_data over the groups: each group is prepared from the global
\* index, which a group with points advances by their number plus one
PrepareGroups(groups, global_x_index, graph_type) ==
    IF groups = <<>> THEN <<>>
    ELSE LET gd == _prepare_group_data(Head(groups), global_x_index, graph_type)
             n == Len(gd.x_data)
         IN <<gd>> \o PrepareGroups(Tail(groups),
                                    IF n > 0 THEN global_x_index + n + 1 ELSE global_x_index,
                                    graph_type)

RECURSIVE TotalPoints(_)
TotalPoints(groups) ==
    IF groups = <<>> THEN 0 ELSE Len(Head(groups).x_data) + TotalPoints(Tail(groups))

\* prepare_data() of a generator whose config has no comparison mode
prepare_data(ms, grouped, graph_type) ==
    LET groups == IF grouped THEN get_grouped_data(ms)
                  ELSE <<[name |-> "All Data", measurements |-> ms]>>
        prepared == PrepareGroups(groups, 0, graph_type)
    IN [groups |-> prepared, total_points |-> TotalPoints(prepared)]

\* copy.deepcopy: an equal value that shares nothing with its argument
_deep_copy_data(data) == data


(***************************************************************************)
(* plot_data: the rendered items of a plot widget, in render order.         *)
(* An item is a ScatterPlotItem ("scatter"), a PlotDataItem ("line",        *)
(* "overlay") or a BarGraphItem ("bar"); x and y are the arrays getData()   *)
(* returns, size the per-point sizes, has_original_sizes whether the        *)
(* attribute original_sizes was set on the item.                            *)
(***************************************************************************)
Item(id, kind, name, x, y) ==
    [id |-> id, kind |-> kind, name |-> name, x |-> x, y |-> y,
     size |-> [k \in 1..Len(x) |-> BaseSize], has_original_sizes |-> FALSE]

RECURSIVE ScatterItems(_, _)
\* _plot_scatter: one ScatterPlotItem per group that has x_data
ScatterItems(groups, firstId) ==
    IF groups = <<>> THEN <<>>
    ELSE LET g == Head(groups)
         IN IF Len(g.x_data) > 0
            THEN <<Item(firstId, "scatter", g.name, g.x_data, g.y_data)>>
                     \o ScatterItems(Tail(groups), firstId + 1)
            ELSE ScatterItems(Tail(groups), firstId)

\* _plot_scatter: (id(scatter), idx) -> group_data['measurements'][measurement_indices[idx]]
ScatterMap(groups, items) ==
    LET keys == UNION {{<<items[k].id, i>> : i \in 0..(Len(items[k].x) - 1)} : k \in 1..Len(items)}
        itemOf(id) == CHOOSE k \in 1..Len(items) : items[k].id = id
        groupOf(id) == CHOOSE j \in 1..Len(groups) : groups[j].name = items[itemOf(id)].name
    IN [key \in keys |->
            LET g == groups[groupOf(key[1])]
            IN g.measurements[g.measurement_indices[key[2] + 1] + 1]]

PairLess(p, q) == p[1] < q[1] \/ (p[1] = q[1] /\ p[2] < q[2])

RECURSIVE InsertPair(_, _)
InsertPair(sorted, p) ==
    IF sorted = <<>> THEN <<p>>
    ELSE IF PairLess(p, Head(sorted)) THEN <<p>> \o sorted
    ELSE <<Head(sorted)>> \o InsertPair(Tail(sorted), p)

RECURSIVE SortPairs(_)
\* sorted(zip(x_filtered, y_filtered))
SortPairs(ps) == IF ps = <<>> THEN <<>> ELSE InsertPair(SortPairs(Tail(ps)), Head(ps))

RECURSIVE OverlayItems(_, _, _)
\* _plot_overlaid_plots: one PlotDataItem per plot measurement of the group
OverlayItems(name, plot_measurements, firstId) ==
    IF plot_measurements = <<>> THEN <<>>
    ELSE <<Item(firstId, "overlay", name, <<>>, <<>>)>>
             \o OverlayItems(name, Tail(plot_measurements), firstId + 1)

RECURSIVE LineItems(_, _)
\* _plot_line: the sorted scalar curve of each group, then its overlaid plot series
LineItems(groups, firstId) ==
    IF groups = <<>> THEN <<>>
    ELSE LET g == Head(groups)
             pairs == SortPairs([k \in 1..Len(g.x_data) |-> <<g.x_data[k], g.y_data[k]>>])
             curve == IF Len(g.x_data) > 0
                      THEN <<Item(firstId, "line", g.name,
                                  [k \in 1..Len(pairs) |-> pairs[k][1]],
                                  [k \in 1..Len(pairs) |-> pairs[k][2]])>>
                      ELSE <<>>
             over == OverlayItems(g.name, g.plot_measurements, firstId + Len(curve))
         IN curve \o over \o LineItems(Tail(groups), firstId + Len(curve) + Len(over))

RECURSIVE AllValues(_)
AllValues(groups) ==
    IF groups = <<>> THEN <<>> ELSE Head(groups).y_data \o AllValues(Tail(groups))

\* self.histogram_data = None
NoHistogram == [x |-> <<>>, heights |-> <<>>, width |-> 0]

\* num_bins = min(50, max(10, len(all_values) // 5))
NumBins(n) ==
    LET most == IF n \div 5 > 10 THEN n \div 5 ELSE 10
    IN IF most < 50 THEN most ELSE 50

RECURSIVE MinOf(_)
MinOf(values) ==
    IF Len(values) = 1 THEN values[1]
    ELSE IF values[1] < MinOf(Tail(values)) THEN values[1] ELSE MinOf(Tail(values))

RECURSIVE MaxOf(_)
MaxOf(values) ==
    IF Len(values) = 1 THEN values[1]
    ELSE IF values[1] > MaxOf(Tail(values)) THEN values[1] ELSE MaxOf(Tail(values))

\* the 0-based bin np.histogram counts value v in: num_bins bins of equal width
\* from the least to the greatest value, the last bin closed; when all values are
\* equal the range is (v - 0.5, v + 0.5) and v falls in the bin that begins at
\* its middle
BinOf(v, values) ==
    LET lo == MinOf(values)
        hi == MaxOf(values)
        num_bins == NumBins(Len(values))
    IN IF lo = hi THEN num_bins \div 2
       ELSE IF v = hi THEN num_bins - 1
       ELSE ((v - lo) * num_bins) \div (hi - lo)

\* hist, bin_edges = np.histogram(all_values, bins=num_bins) and the
\* histogram_data made of them, in view coordinates that put the centre of bin i
\* at x = i, so that width = bin_edges[1] - bin_edges[0] is 1
np_histogram(values) ==
    [x |-> [i \in 1..NumBins(Len(values)) |-> i - 1],
     heights |-> [i \in 1..NumBins(Len(values)) |->
                     Cardinality({k \in 1..Len(values) : BinOf(values[k], values) = i - 1})],
     width |-> 1]

\* _plot_histogram: one BarGraphItem over the values of all groups, none without values
HistogramItems(groups, firstId) ==
    IF AllValues(groups) = <<>> THEN <<>>
    ELSE <<Item(firstId, "bar", "Distribution", <<>>, AllValues(groups))>>

\* plot_data(plot_widget): adds the items of the graph type to the widget
plot_data(g, firstId) ==
    LET groups == g.prepared_data.groups
        new == CASE g.graph_type = "Scatter" -> ScatterItems(groups, firstId)
                 [] g.graph_type = "Line" -> LineItems(groups, firstId)
                 [] OTHER -> HistogramItems(groups, firstId)
    IN [g EXCEPT !.items = @ \o new,
                 !.point_measurement_map =
                     IF g.graph_type = "Scatter" THEN ScatterMap(groups, new) @@ @ ELSE @,
                 !.histogram_data =
                     IF g.graph_type = "Histogram" /\ new # <<>>
                     THEN np_histogram(AllValues(groups)) ELSE @]

\* the number of items plot_data adds, each with a fresh identity
ItemsPlotted(g, g2) == Len(g2.items) - Len(g.items)

\* GraphConfig(): the interaction toggles of the configuration
DefaultConfig ==
    [enable_point_deletion |-> TRUE, enable_tooltips |-> TRUE,
     enable_hover_highlight |-> TRUE]

\* self.tooltip_label = None
NoLabel == [label |-> FALSE, visible |-> FALSE, text |-> 0, pos |-> <<0, 0>>]

\* _setup_tooltip: a new TextItem, hidden
NewLabel == [NoLabel EXCEPT !.label = TRUE]

\* setup_interactivity(plot_widget): connects one more _on_plot_clicked handler to
\* the scene, makes a new hidden tooltip label if tooltips are enabled, and connects
\* one more _on_mouse_moved handler if hover highlighting is enabled
setup_interactivity(g) ==
    [g EXCEPT !.click_handlers = @ + 1,
              !.tooltip = IF g.config.enable_tooltips THEN NewLabel ELSE @,
              !.hover_handlers = IF g.config.enable_hover_highlight THEN @ + 1 ELSE @]

\* MeasurementGraphGenerator(config) followed by prepare_data()
NewGenerator(ms, grouped, graph_type) ==
    LET prepared == prepare_data(ms, grouped, graph_type)
    IN [graph_type |-> graph_type,
        prepared_data |-> prepared,
        original_data |-> _deep_copy_data(prepared),
        deleted_items |-> {},
        point_measurement_map |-> << >>,
        items |-> <<>>,
        histogram_data |-> NoHistogram,
        hover_item |-> NoItem,
        hover_index |-> NoIndex,
        selected_item |-> NoItem,
        selected_index |-> NoIndex,
        tooltip |-> NoLabel,
        config |-> DefaultConfig,
        click_handlers |-> 0,
        hover_handlers |-> 0]

\* GraphPage._create_plot: generator, prepare_data, plot_data, apply_styling, setup_interactivity
_create_plot(ms, grouped, graph_type, firstId) ==
    setup_interactivity(plot_data(NewGenerator(ms, grouped, graph_type), firstId))

\* GraphPage._generate_standard_plots: Scatter, then Line, then Histogram
_generate_standard_plots(ms, grouped, firstId) ==
    LET s == _create_plot(ms, grouped, "Scatter", firstId)
        l == _create_plot(ms, grouped, "Line", firstId + Len(s.items))
        h == _create_plot(ms, grouped, "Histogram", firstId + Len(s.items) + Len(l.items))
    IN [cached_plots |-> [d \in DisplayTypes |->
                            CASE d = "Scatter" -> s [] d = "Line" -> l [] OTHER -> h],
        nextId |-> firstId + Len(s.items) + Len(l.items) + Len(h.items)]

(***************************************************************************)
(* Item access.                                                             *)
(***************************************************************************)
HasItem(g, id) == \E k \in 1..Len(g.items) : g.items[k].id = id
ItemPos(g, id) == CHOOSE k \in 1..Len(g.items) : g.items[k].id = id
ItemOf(g, id) == g.items[ItemPos(g, id)]
ItemIds(g) == {g.items[k].id : k \in 1..Len(g.items)}

\* the sequence s without its element at 0-based index idx (x_data[mask])
RemoveAt(s, idx) == [k \in 1..(Len(s) - 1) |-> IF k <= idx THEN s[k] ELSE s[k + 1]]

(***************************************************************************)
(* Selection and tooltip.                                                   *)
(***************************************************************************)
\* _clear_selection without tooltip_label.setVisible(False)
_clear_selection_keep_label(g) ==
    [g EXCEPT !.items = IF g.selected_item # NoItem /\ HasItem(g, g.selected_item)
                           /\ ItemOf(g, g.selected_item).has_original_sizes
                        THEN [@ EXCEPT ![ItemPos(g, g.selected_item)].size =
                                           [k \in 1..Len(@) |-> BaseSize]]
                        ELSE @,
              !.selected_item = NoItem,
              !.selected_index = NoIndex]

\* _clear_selection(plot_widget): the sizes of the selected item are set back, the
\* selection is dropped and the tooltip label hidden
_clear_selection(g) ==
    LET restored ==
            IF g.selected_item # NoItem /\ HasItem(g, g.selected_item)
               /\ ItemOf(g, g.selected_item).kind = "scatter"
               /\ ItemOf(g, g.selected_item).has_original_sizes
            THEN [g.items EXCEPT ![ItemPos(g, g.selected_item)].size =
                                     [k \in 1..Len(@) |-> BaseSize]]
            ELSE g.items
    IN [g EXCEPT !.items = restored,
                 !.selected_item = NoItem,
                 !.selected_index = NoIndex,
                 !.tooltip.visible = FALSE]

_select_point(g, id, idx) ==
    LET c == _clear_selection(g)
        p == ItemPos(c, id)
    IN IF c.items[p].kind = "scatter"
       THEN [c EXCEPT !.items[p].has_original_sizes = TRUE,
                      !.items[p].size = [k \in 1..Len(c.items[p].x) |->
                                            IF k = idx + 1 THEN SelectedSize ELSE BaseSize],
                      !.selected_item = id,
                      !.selected_index = idx]
       ELSE c

\* _show_tooltip(item, point_idx, mouse_point): the label shows the record the map
\* holds for (id(item), idx) at the mouse point; nothing changes without a label
\* or without a record
_show_tooltip(g, id, idx, mouse_point) ==
    IF g.tooltip.label /\ <<id, idx>> \in DOMAIN g.point_measurement_map
    THEN [g EXCEPT !.tooltip = [label |-> TRUE, visible |-> TRUE,
                                text |-> g.point_measurement_map[<<id, idx>>].id,
                                pos |-> mouse_point]]
    ELSE g


(***************************************************************************)
(* Deletion and undo.                                                       *)
(***************************************************************************)
\* ReindexMap with the shift left out: the entry at point_idx is dropped, no entry moves
ReindexMapNoShift(map, item_id, point_idx) ==
    [key \in {k2 \in DOMAIN map : k2 # <<item_id, point_idx>>} |-> map[key]]

\* _delete_point, "Update point measurement map": the entries of the item above
\* point_idx move down by one, the entry at point_idx is dropped
ReindexMap(map, item_id, point_idx) ==
    LET kept == {key \in DOMAIN map : key[1] # item_id \/ key[2] < point_idx}
        moved == {<<key[1], key[2] - 1>> : key \in
                      {k2 \in DOMAIN map : k2[1] = item_id /\ k2[2] > point_idx}}
    IN [key \in kept \cup moved |->
            IF key[1] = item_id /\ key[2] >= point_idx
            THEN map[<<key[1], key[2] + 1>>]
            ELSE map[key]]

\* _delete_point(item, point_idx, plot_widget); raised: mask[point_idx] = False
\* raises IndexError when point_idx is not an index of the array
_delete_point(g, id, idx) ==
    LET p == ItemPos(g, id)
        it == g.items[p]
        n == Len(it.x)
        marked == [g EXCEPT !.deleted_items = @ \cup {<<id, idx>>}]
        removed == [marked EXCEPT
                        !.items[p].x = RemoveAt(@, idx),
                        !.items[p].y = RemoveAt(@, idx),
                        !.items[p].size = [k \in 1..(n - 1) |-> BaseSize],
                        !.point_measurement_map = ReindexMap(@, id, idx)]
    IN IF it.kind # "scatter" THEN [g |-> g, raised |-> FALSE]
       ELSE IF n = 0 THEN [g |-> marked, raised |-> FALSE]
       ELSE IF idx >= n THEN [g |-> marked, raised |-> TRUE]
       ELSE [g |-> IF g.selected_item = id /\ g.selected_index = idx
                   THEN _clear_selection(removed) ELSE removed,
             raised |-> FALSE]

\* reset_deletions without plot_widget.clear() and plot_data(): nothing is drawn again
reset_deletions_no_replot(g, firstId) ==
    setup_interactivity(_clear_selection(
        [g EXCEPT !.deleted_items = {},
                  !.prepared_data = _deep_copy_data(g.original_data)]))

\* reset_deletions without deleted_items.clear(): the points stay marked deleted
reset_deletions_keep_marks(g, firstId) ==
    LET restored == [g EXCEPT !.prepared_data = _deep_copy_data(g.original_data)]
        cleared == [_clear_selection(restored) EXCEPT !.items = <<>>]
    IN setup_interactivity(plot_data(cleared, firstId))

\* reset_deletions(plot_widget): clear the deleted set, restore the snapshot, clear
\* the selection, clear the widget and plot, style and set up interactivity again
reset_deletions(g, firstId) ==
    LET restored == [g EXCEPT !.deleted_items = {},
                              !.prepared_data = _deep_copy_data(g.original_data)]
        cleared == [_clear_selection(restored) EXCEPT !.items = <<>>]
    IN setup_interactivity(plot_data(cleared, firstId))

(***************************************************************************)
(* The deletion and undo session on the cached standard plots.              *)
(***************************************************************************)
NoOp == [op |-> "none", d |-> "Scatter", item |-> NoItem, idx |-> NoIndex, raised |-> FALSE]

\* the measurement lists a query returns: ids in list order; a record with a plot
\* series, if any, comes first (so that measurement_indices is not the identity);
\* field values are only compared, so the first record's value is called "A"
MeasurementLists ==
    UNION {{ms \in [1..n -> [id : 1..n, grp : Groups, plot : BOOLEAN]] :
                /\ \A i \in 1..n : ms[i].id = i
                /\ ms[1].grp = "A"
                /\ \A i \in 2..n : ~ms[i].plot} : n \in 1..MaxMeas}

\* the state after generate_graphs() in standard mode cached the three plots
Init ==
    /\ measurements \in MeasurementLists
    /\ group_by \in BOOLEAN
    \* without a grouping field the field values are never read
    /\ ~group_by => \A i \in 1..Len(measurements) : measurements[i].grp = "A"
    /\ gen = _generate_standard_plots(measurements, group_by, 1).cached_plots
    /\ nextId = _generate_standard_plots(measurements, group_by, 1).nextId
    /\ undos = 0
    /\ last = NoOp
    /\ pre = gen
    /\ PageAtStart
    /\ NoScene
    /\ NoUi
    /\ NoCalc

\* StoreEntry with one generator shared by all cached plots
StoreEntryShared(cache, d, g) == [e \in DOMAIN cache |-> g]

\* every cached plot widget carries its own generator (plot_widget.graph_generator,
\* created by _create_plot): an operation on a plot changes that entry alone
StoreEntry(cache, d, g) == [cache EXCEPT ![d] = g]

\* an unhandled exception in a slot ends the application (PyQt6 calls qFatal)
Running == ~last.raised

\* the "Delete Point" action of the plot of display type d:
\* _delete_point(item, point_idx, plot_widget) with an index up to one past the end
DeletePoint(d, id, idx) ==
    /\ Running
    /\ HasItem(gen[d], id)
    /\ idx <= Len(ItemOf(gen[d], id).x)
    \* an item that is not a ScatterPlotItem is tried with index 0 alone
    /\ ItemOf(gen[d], id).kind # "scatter" => idx = 0
    /\ gen' = StoreEntry(gen, d, _delete_point(gen[d], id, idx).g)
    /\ pre' = gen
    /\ last' = [op |-> "delete", d |-> d, item |-> id, idx |-> idx,
                raised |-> _delete_point(gen[d], id, idx).raised]
    /\ UNCHANGED <<measurements, group_by, nextId, undos, pageVars, hitVars, uiVars, calcVars>>

\* the "Undo Deletions" action of the plot of display type d, which the point menu
\* offers when deleted_items is not empty: reset_deletions(plot_widget)
ResetDeletions(d) ==
    /\ Running
    /\ undos < MaxUndo
    /\ gen[d].deleted_items # {}
    /\ gen' = StoreEntry(gen, d, reset_deletions(gen[d], nextId))
    /\ nextId' = nextId + Len(reset_deletions(gen[d], nextId).items)
    /\ undos' = undos + 1
    /\ pre' = gen
    /\ last' = [NoOp EXCEPT !.op = "undo", !.d = d]
    /\ UNCHANGED <<measurements, group_by, pageVars, hitVars, uiVars, calcVars>>

Next ==
    \/ \E d \in DisplayTypes, id \in 1..(nextId - 1), idx \in 0..MaxMeas : DeletePoint(d, id, idx)
    \/ \E d \in DisplayTypes : ResetDeletions(d)

Spec == Init /\ [][Next]_vars


(***************************************************************************)
(* Properties of deletion and undo.                                         *)
(***************************************************************************)
\* the snapshot prepare_data() of the plot of display type d captured
Snapshot(d) == prepare_data(measurements, group_by, d)

\* the coordinates of the rendered items, in render order
RenderedPoints(g) ==
    [k \in 1..Len(g.items) |->
        [kind |-> g.items[k].kind, name |-> g.items[k].name,
         x |-> g.items[k].x, y |-> g.items[k].y]]

\* the coordinates rendered when the plot was created
OriginalPoints(d) == RenderedPoints(_create_plot(measurements, group_by, d, 1))

\* every rendered scatter point is mapped to the record whose value it shows
PointsMapped(g) ==
    \A k \in 1..Len(g.items) :
        g.items[k].kind = "scatter" =>
            \A i \in 0..(Len(g.items[k].x) - 1) :
                /\ <<g.items[k].id, i>> \in DOMAIN g.point_measurement_map
                /\ ValueOf(g.point_measurement_map[<<g.items[k].id, i>>]) = g.items[k].y[i + 1]

\* C1: after reset_deletions(), whatever points were deleted before, the working
\* prepared data equals the snapshot taken at the end of prepare_data(), every point
\* rendered originally is rendered (and mapped to its record) again, and no point
\* is marked deleted.
C1_UndoRestoresSnapshot ==
    last.op = "undo" =>
        LET g == gen[last.d]
        IN /\ g.prepared_data = Snapshot(last.d)
           /\ g.original_data = Snapshot(last.d)
           /\ g.deleted_items = {}
           /\ RenderedPoints(g) = OriginalPoints(last.d)
           /\ PointsMapped(g)

\* an undo that followed two deletions which had removed rendered points
C1_Witness ==
    /\ last.op = "undo"
    /\ Cardinality(pre[last.d].deleted_items) >= 2
    /\ RenderedPoints(pre[last.d]) # OriginalPoints(last.d)
    /\ RenderedPoints(gen[last.d]) = OriginalPoints(last.d)

\* the last operation deleted an existing point of a scatter collection
DeletedInRange ==
    /\ last.op = "delete"
    /\ ItemOf(pre[last.d], last.item).kind = "scatter"
    /\ last.idx < Len(ItemOf(pre[last.d], last.item).x)

\* C2: deleting the point at index k of a collection moves every map entry of that
\* collection with index i > k to i - 1 with its record, removes the entry at k,
\* and leaves the entries below k and the entries of other collections unchanged.
C2_DeletionReindexes ==
    DeletedInRange =>
        LET old == pre[last.d].point_measurement_map
            new == gen[last.d].point_measurement_map
            n == Len(ItemOf(pre[last.d], last.item).x)
        IN /\ \A key \in DOMAIN old :
                  IF key[1] = last.item /\ key[2] > last.idx
                  THEN /\ <<key[1], key[2] - 1>> \in DOMAIN new
                       /\ new[<<key[1], key[2] - 1>>] = old[key]
                  ELSE IF key[1] = last.item /\ key[2] = last.idx
                  THEN TRUE
                  ELSE key \in DOMAIN new /\ new[key] = old[key]
           /\ DOMAIN new = DOMAIN old \ {<<last.item, n - 1>>}

\* index 0 of a collection of three points was deleted (its entries 1 and 2 moved
\* to 0 and 1), or an index of a collection beside another collection
C2_Witness ==
    /\ DeletedInRange
    /\ \/ /\ Len(ItemOf(pre[last.d], last.item).x) = 3
          /\ last.idx = 0
          /\ <<last.item, 1>> \in DOMAIN gen[last.d].point_measurement_map
       \/ /\ last.idx + 1 < Len(ItemOf(pre[last.d], last.item).x)
          /\ \E key \in DOMAIN gen[last.d].point_measurement_map : key[1] # last.item

\* C3 (as claimed): a deletion request whose index is out of range for the
\* collection, or whose collection is empty, raises nothing and leaves the rendered
\* coordinates, the point-to-record map and the deleted set unchanged.
C3_OutOfRangeIsNoOp ==
    (/\ last.op = "delete"
     /\ ItemOf(pre[last.d], last.item).kind = "scatter"
     /\ last.idx >= Len(ItemOf(pre[last.d], last.item).x))
    => /\ ~last.raised
       /\ RenderedPoints(gen[last.d]) = RenderedPoints(pre[last.d])
       /\ gen[last.d].point_measurement_map = pre[last.d].point_measurement_map
       /\ gen[last.d].deleted_items = pre[last.d].deleted_items

\* C8: deleting a point on one cached display type leaves the generator of every
\* other cached display type (working data, rendered points, point-to-record map,
\* deleted set) unchanged.
C8_DeletionIsPerEntry ==
    last.op = "delete" => \A e \in DisplayTypes \ {last.d} : gen[e] = pre[e]

\* a deletion that changed the rendered points of its own entry
C8_Witness ==
    /\ DeletedInRange
    /\ RenderedPoints(gen[last.d]) # RenderedPoints(pre[last.d])
    /\ gen[last.d].deleted_items # {}

MaxReq == 2
\* the largest number of rows a query matches
MaxRows == 2

\* GraphMode constants followed by the model
Modes == {"Standard", "Overlay"}

\* update_display_type_options: the display types offered in a mode, first one first
DisplayOptions(mode) ==
    IF mode = "Standard" THEN <<"Scatter", "Line", "Histogram">> ELSE <<"Overlay">>

\* QProgressDialog("Querying database...", "Cancel", 0, 100, main_window)
DialogMaximum == 100

NoPlot == [req |-> 0, mode |-> "none", key |-> "none"]
NoEvent == [op |-> "none", req |-> 0, key |-> "none"]

\* the page fields a display type change may touch
PageSnapshot ==
    [cached_plots |-> cached_plots, current_plot |-> current_plot,
     prepares |-> prepares, nreq |-> nreq]

\* the plot widget created for display type key from the results of request req
\* while the page was in the given mode
PlotWidget(req, mode, key) == [req |-> req, mode |-> mode, key |-> key]

\* self.cached_plots[key] = plot
StorePlot(cache, key, plot) ==
    [k \in DOMAIN cache \cup {key} |-> IF k = key THEN plot ELSE cache[k]]

\* clear_cached_plots: self.cached_plots = {}
clear_cached_plots == <<>>

\* display_plot(plot_widget): self.current_plot = plot_widget
display_plot(plot_widget) == plot_widget

\* _display_default_plot: shows the cached plot of the combo box's current text, if any
_display_default_plot(cache, shown, first_type) ==
    IF first_type \in DOMAIN cache THEN display_plot(cache[first_type]) ELSE shown

\* QProgressDialog.close(), and cancel() apart from the signal: the dialog hides
Hidden(dialog) == [dialog EXCEPT !.visible = FALSE]

\* QProgressDialog.reset(): the value becomes minimum - 1 and the dialog hides
ResetDialog(dialog) == [dialog EXCEPT !.visible = FALSE, !.value = 0 - 1]

\* on_query_progress_increment: setValue(value() + 1); a value above the maximum is
\* ignored by the bar, a value equal to the maximum resets the dialog
on_query_progress_increment(dialog) ==
    IF dialog.value + 1 > dialog.maximum THEN dialog
    ELSE IF dialog.value + 1 = dialog.maximum THEN ResetDialog(dialog)
    ELSE [dialog EXCEPT !.value = dialog.value + 1]

\* on_query_progress_init(total): setMaximum(total); setValue(0)
on_query_progress_init(dialog, total) == [dialog EXCEPT !.maximum = total, !.value = 0]

\* DatabaseQueryWorker.__init__: _cancel = False, results = []
NewWorker(total) == [state |-> "counting", total |-> total, loaded |-> 0, cancel |-> FALSE]

\* the worker of request r starts
AddWorker(ws, r, w) == [k \in DOMAIN ws \cup {r} |-> IF k = r THEN w ELSE ws[k]]
\* run() of the worker of request r has returned
EndWorker(ws, r) == [k \in DOMAIN ws \ {r} |-> ws[k]]

Signal(sig, w, n) == [sig |-> sig, w |-> w, n |-> n]

\* requests whose query or plot generation has not finished
InFlight ==
    {r \in 1..nreq :
        \/ r \in DOMAIN workers
        \/ \E i \in 1..Len(queue) : queue[i].sig = "finished" /\ queue[i].w = r
        \/ \E i \in 1..Len(stack) : stack[i].req = r}

\* the GUI thread is alive
Alive == ~crashed
\* the main window takes the user's input
Interactive == Alive /\ ~progress_dialog.visible
\* the innermost generate_graphs() activation
Top == stack[Len(stack)]
\* its processEvents() call has handled every queued event and returns
Resumes(pc) == Alive /\ stack # <<>> /\ Top.pc = pc /\ queue = <<>>
SetTop(frame) == [stack EXCEPT ![Len(stack)] = frame]
Pop == SubSeq(stack, 1, Len(stack) - 1)

InitPage ==
    /\ measurements = <<>>
    /\ group_by = FALSE
    /\ gen = <<>>
    /\ nextId = 1
    /\ undos = 0
    /\ last = NoOp
    /\ pre = <<>>
    /\ PageAtStart
    /\ NoScene
    /\ NoUi
    /\ NoCalc

\* on_generate_graph with a Y-axis measurement selected, in a mode that needs one
\* query (query_database).  total is the number of rows the statement matches.
\* Nothing stops or disconnects the worker of an earlier request.  When
\* self.query_thread still refers to a started QThread, the assignment of the new
\* QThread drops the last reference to a running thread, and Qt aborts the process
\* ("QThread: Destroyed while thread is still running").
OnGenerateGraph(total) ==
    /\ Interactive
    /\ nreq < MaxReq
    /\ nreq' = nreq + 1
    /\ progress_dialog' = [req |-> nreq + 1, visible |-> TRUE,
                           maximum |-> DialogMaximum, value |-> 0]
    /\ cached_plots' = clear_cached_plots
    /\ superseded' = superseded \cup InFlight
    /\ IF query_thread = 0
       THEN /\ workers' = AddWorker(workers, nreq + 1, NewWorker(total))
            /\ query_thread' = nreq + 1
            /\ crashed' = FALSE
       ELSE /\ crashed' = TRUE
            /\ UNCHANGED <<workers, query_thread>>
    /\ event' = [op |-> "generate", req |-> nreq + 1, key |-> "none"]
    /\ UNCHANGED <<current_mode, combo, current_plot, queue, stack, prepares, voided,
                   sessionVars, hitVars, uiVars, calcVars>>

\* on_graph_mode_changed(mode_text)
OnGraphModeChanged(mode) ==
    /\ Interactive
    /\ mode # current_mode
    /\ current_mode' = mode
    /\ cached_plots' = clear_cached_plots
    /\ combo' = DisplayOptions(mode)[1]
    /\ event' = [op |-> "mode", req |-> 0, key |-> "none"]
    /\ UNCHANGED <<current_plot, progress_dialog, query_thread, workers, queue, stack,
                   nreq, prepares, superseded, voided, crashed, sessionVars, hitVars, uiVars, calcVars>>

\* on_display_type_changed that builds the plot again instead of showing the cached one
on_display_type_changed_rebuilding(page, display_type) ==
    IF display_type \in DOMAIN page.cached_plots
    THEN [page EXCEPT
             !.cached_plots = StorePlot(page.cached_plots, display_type,
                                  PlotWidget(page.nreq + 1, "Standard", display_type)),
             !.current_plot = PlotWidget(page.nreq + 1, "Standard", display_type),
             !.prepares = page.prepares + 1]
    ELSE page

\* on_display_type_changed(display_type) on the page fields
on_display_type_changed(page, display_type) ==
    IF display_type \in DOMAIN page.cached_plots
    THEN [page EXCEPT !.current_plot = display_plot(page.cached_plots[display_type])]
    ELSE page

\* the user picks another entry of the display type combo box
OnDisplayTypeChanged(display_type) ==
    /\ Interactive
    /\ \E i \in 1..Len(DisplayOptions(current_mode)) :
           display_type = DisplayOptions(current_mode)[i]
    /\ display_type # combo
    /\ combo' = display_type
    /\ cached_plots' = on_display_type_changed(PageSnapshot, display_type).cached_plots
    /\ current_plot' = on_display_type_changed(PageSnapshot, display_type).current_plot
    /\ prepares' = on_display_type_changed(PageSnapshot, display_type).prepares
    /\ event' = [op |-> "display", req |-> 0, key |-> display_type]
    /\ UNCHANGED <<current_mode, progress_dialog, query_thread, workers, queue, stack,
                   nreq, superseded, voided, crashed, sessionVars, hitVars, uiVars, calcVars>>

\* the user clicks Cancel on the progress dialog: the dialog hides and its canceled
\* signal reaches cancel() of the worker connected in query_database
CancelClicked ==
    /\ Alive
    /\ progress_dialog.visible
    /\ progress_dialog' = ResetDialog(progress_dialog)
    /\ workers' = [r \in DOMAIN workers |->
                      IF r = progress_dialog.req
                      THEN [workers[r] EXCEPT !.cancel = TRUE] ELSE workers[r]]
    /\ event' = NoEvent
    /\ UNCHANGED <<current_mode, combo, cached_plots, current_plot, query_thread, queue,
                   stack, nreq, prepares, superseded, voided, crashed, sessionVars, hitVars, uiVars, calcVars>>

\* DatabaseQueryWorker.run, the count query: init_progress(total); with no row,
\* finished(results) is emitted in the branch and again in the finally block
WorkerCount(w) ==
    /\ Alive
    /\ w \in DOMAIN workers
    /\ workers[w].state = "counting"
    /\ queue' = queue \o <<Signal("init", 0, workers[w].total)>> \o
                (IF workers[w].total = 0
                 THEN <<Signal("finished", w, 0), Signal("finished", w, 0)>> ELSE <<>>)
    /\ workers' = IF workers[w].total = 0 THEN EndWorker(workers, w)
                  ELSE [workers EXCEPT ![w].state = "loop"]
    /\ voided' = IF workers[w].total = 0 THEN voided \cup {w} ELSE voided
    /\ event' = NoEvent
    /\ UNCHANGED <<current_mode, combo, cached_plots, current_plot, progress_dialog,
                   query_thread, stack, nreq, prepares, superseded, crashed,
                   sessionVars, hitVars, uiVars, calcVars>>

\* DatabaseQueryWorker.run, one turn of the row loop.  sees tells whether the write
\* of _cancel by cancel() has reached the worker when it tests the flag.  The loop
\* ends when the rows are exhausted or the flag is seen; the finally block emits
\* finished(results) with the rows loaded so far.
WorkerRow(w, sees) ==
    /\ Alive
    /\ w \in DOMAIN workers
    /\ workers[w].state = "loop"
    /\ sees => workers[w].cancel /\ workers[w].loaded < workers[w].total
    /\ IF workers[w].loaded = workers[w].total \/ sees
       THEN /\ workers' = EndWorker(workers, w)
            /\ queue' = Append(queue, Signal("finished", w, workers[w].loaded))
            /\ voided' = IF sees THEN voided \cup {w} ELSE voided
       ELSE /\ workers' = [workers EXCEPT ![w].loaded = workers[w].loaded + 1]
            /\ queue' = Append(queue, Signal("inc", 0, 0))
            /\ UNCHANGED voided
    /\ event' = NoEvent
    /\ UNCHANGED <<current_mode, combo, cached_plots, current_plot, progress_dialog,
                   query_thread, stack, nreq, prepares, superseded, crashed,
                   sessionVars, hitVars, uiVars, calcVars>>

\* the GUI thread handles the oldest queued signal
Handles(sig) == Alive /\ queue # <<>> /\ Head(queue).sig = sig

\* on_query_progress_init(total), on the dialog made last
OnQueryProgressInit ==
    /\ Handles("init")
    /\ queue' = Tail(queue)
    /\ progress_dialog' = IF progress_dialog.req = 0 THEN progress_dialog
                          ELSE on_query_progress_init(progress_dialog, Head(queue).n)
    /\ event' = NoEvent
    /\ UNCHANGED <<current_mode, combo, cached_plots, current_plot, query_thread, workers,
                   stack, nreq, prepares, superseded, voided, crashed, sessionVars, hitVars, uiVars, calcVars>>

\* on_query_progress_increment(), on the dialog made last
OnQueryProgressIncrement ==
    /\ Handles("inc")
    /\ queue' = Tail(queue)
    /\ progress_dialog' = IF progress_dialog.req = 0 THEN progress_dialog
                          ELSE on_query_progress_increment(progress_dialog)
    /\ event' = NoEvent
    /\ UNCHANGED <<current_mode, combo, cached_plots, current_plot, query_thread, workers,
                   stack, nreq, prepares, superseded, voided, crashed, sessionVars, hitVars, uiVars, calcVars>>

\* on_query_finished(measurements, filters) with test selection 'all':
\* cleanup_query_thread() quits and waits for the thread self.query_thread refers to
\* (it returns once that thread's run() has ended); an empty list closes the dialog
\* and shows "No Data"; otherwise generate_graphs(measurements) starts and runs up
\* to its first processEvents()
OnQueryFinished ==
    /\ Handles("finished")
    /\ query_thread \notin DOMAIN workers
    /\ queue' = Tail(queue)
    /\ query_thread' = 0
    /\ IF Head(queue).n = 0
       THEN /\ progress_dialog' = Hidden(progress_dialog)
            /\ event' = NoEvent
            /\ UNCHANGED stack
       ELSE /\ stack' = Append(stack, [req |-> Head(queue).w, pc |-> "label"])
            /\ event' = NoEvent
            /\ UNCHANGED progress_dialog
    /\ UNCHANGED <<current_mode, combo, cached_plots, current_plot, workers, nreq,
                   prepares, superseded, voided, crashed, sessionVars, hitVars, uiVars, calcVars>>

\* generate_graphs after its processEvents(): clear_cached_plots() and the branch on
\* current_mode, up to the first processEvents() of the plot generation
GenerateGraphs ==
    /\ Resumes("label")
    /\ cached_plots' = clear_cached_plots
    /\ stack' = SetTop([Top EXCEPT !.pc = IF current_mode = "Standard"
                                           THEN "scatter" ELSE "overlay"])
    /\ event' = NoEvent
    /\ UNCHANGED <<current_mode, combo, current_plot, progress_dialog, query_thread,
                   workers, queue, nreq, prepares, superseded, voided, crashed,
                   sessionVars, hitVars, uiVars, calcVars>>

\* _generate_standard_plots: the plot of one display type is created (prepare_data
\* runs in _create_plot) and cached; the code then reaches the next processEvents()
GenerateStandard(key, next_pc) ==
    /\ cached_plots' = StorePlot(cached_plots, key, PlotWidget(Top.req, "Standard", key))
    /\ prepares' = prepares + 1
    /\ stack' = SetTop([Top EXCEPT !.pc = next_pc])
    /\ event' = NoEvent
    /\ UNCHANGED <<current_mode, combo, current_plot, progress_dialog, query_thread,
                   workers, queue, nreq, superseded, voided, crashed, sessionVars, hitVars, uiVars, calcVars>>

GenerateScatter == Resumes("scatter") /\ GenerateStandard("Scatter", "line")

GenerateLine == Resumes("line") /\ GenerateStandard("Line", "histogram")

\* the end of generate_graphs: the last plot is cached, the dialog made last is
\* closed and _display_default_plot() runs
FinishGeneration(key, mode, count) ==
    /\ cached_plots' = StorePlot(cached_plots, key, PlotWidget(Top.req, mode, key))
    /\ prepares' = prepares + count
    /\ progress_dialog' = Hidden(progress_dialog)
    /\ current_plot' = _display_default_plot(cached_plots', current_plot, combo)
    /\ stack' = Pop
    /\ event' = NoEvent
    /\ UNCHANGED <<current_mode, combo, query_thread, workers, queue, nreq, superseded,
                   voided, crashed, sessionVars, hitVars, uiVars, calcVars>>

GenerateHistogram == Resumes("histogram") /\ FinishGeneration("Histogram", "Standard", 1)

\* _generate_overlay_plot builds its widget without a MeasurementGraphGenerator
GenerateOverlay == Resumes("overlay") /\ FinishGeneration("Overlay", "Overlay", 0)

NextPage ==
    \/ \E total \in 0..MaxRows : OnGenerateGraph(total)
    \/ \E mode \in Modes : OnGraphModeChanged(mode)
    \/ \E key \in {"Scatter", "Line", "Histogram", "Overlay"} : OnDisplayTypeChanged(key)
    \/ CancelClicked
    \/ \E w \in 1..MaxReq : WorkerCount(w)
    \/ \E w \in 1..MaxReq, sees \in BOOLEAN : WorkerRow(w, sees)
    \/ OnQueryProgressInit
    \/ OnQueryProgressIncrement
    \/ OnQueryFinished
    \/ GenerateGraphs
    \/ GenerateScatter
    \/ GenerateLine
    \/ GenerateHistogram
    \/ GenerateOverlay

SpecPage == InitPage /\ [][NextPage]_vars

(***************************************************************************)
(* Properties of the generation flow and the plot cache.                    *)
(***************************************************************************)
\* the plots the page holds: the cached ones and the displayed one
HeldPlots == {cached_plots[k] : k \in DOMAIN cached_plots} \cup {current_plot}

\* C4 (as claimed): at most one request is in flight at a time, and a request that
\* was in flight when a newer one started is discarded: its plots are never cached
\* or displayed, and starting the newer request does not end the process.
C4_EarlierRequestDiscarded ==
    /\ ~crashed
    /\ Cardinality(InFlight) <= 1
    /\ \A plot \in HeldPlots : plot.req \notin superseded

\* C5 (as claimed): from a query that was cancelled in its row loop or that matched
\* no row, no plot generation is started and no plot is cached or displayed.
C5_CancelledOrEmptyIsNoData ==
    \A r \in voided :
        /\ \A i \in 1..Len(stack) : stack[i].req # r
        /\ \A plot \in HeldPlots : plot.req # r

\* C6 (as claimed): a mode change or a new generation request leaves the cache
\* empty, and at every moment all cached plots were made by the most recent
\* generation request, in one and the same mode.
C6_CacheIsOneRequest ==
    /\ event.op \in {"mode", "generate"} => cached_plots = <<>>
    /\ \A k \in DOMAIN cached_plots : cached_plots[k].req = nreq
    /\ \A k \in DOMAIN cached_plots, j \in DOMAIN cached_plots :
           cached_plots[k].mode = cached_plots[j].mode

\* C7: a change of the display type to a key that has a cache entry makes that entry
\* the displayed plot and changes nothing else: the cache keeps its contents,
\* prepare_data is not called and no query is started.
C7_DisplaySwitchUsesCache ==
    [][(/\ combo' # combo
        /\ current_mode' = current_mode
        /\ combo' \in DOMAIN cached_plots)
       => /\ current_plot' = cached_plots[combo']
          /\ cached_plots' = cached_plots
          /\ prepares' = prepares
          /\ nreq' = nreq
          /\ workers' = workers
          /\ queue' = queue]_vars

\* the user switched from the default display type to one whose cached plot is
\* now displayed
C7_Witness ==
    /\ event.op = "display"
    /\ event.key \in DOMAIN cached_plots
    /\ event.key # DisplayOptions(current_mode)[1]
    /\ current_plot = cached_plots[event.key]
    /\ prepares > 0

(***************************************************************************)
(* Hit-testing: _find_nearest_point over the items of one plot.             *)
(*                                                                          *)
(* Data (view) coordinates are small integers.  The view box maps them to   *)
(* scene pixels with a scale and an inverted y axis, so a view position is  *)
(* kept as a pair of numerators over PixelsPerUnit.                         *)
(***************************************************************************)
\* the largest view coordinate of a point and the last histogram bin
MaxCoord == 2

\* threshold=20, the default and the value _on_mouse_moved passes
Threshold == 20

\* the scale of the view box transform, in pixels per view unit
PixelsPerUnit == 8

\* plot_item.vb.mapViewToScene(QPointF(x, y))
mapViewToScene(p) ==
    <<PixelsPerUnit * p[1] + 12, PixelsPerUnit * (MaxCoord - p[2]) + 12>>

\* plot_item.vb.mapSceneToView(scene_pos), times PixelsPerUnit
mapSceneToView(scene_pos) ==
    <<scene_pos[1] - 12, PixelsPerUnit * MaxCoord + 12 - scene_pos[2]>>

\* dx**2 + dy**2: the square of the distance np.sqrt returns
Distance2(scene_point, scene_pos) ==
    (scene_point[1] - scene_pos[1]) * (scene_point[1] - scene_pos[1])
    + (scene_point[2] - scene_pos[2]) * (scene_point[2] - scene_pos[2])

\* nearest_item, nearest_idx, min_distance = None, None, float('inf'); d2 is the
\* square of min_distance, negative for infinity
NothingFound == [item |-> NoItem, idx |-> NoIndex, d2 |-> 0 - 1]

\* distance <= min_distance: of points at equal distance the last one would win
NotFarther(d2, acc) == acc.d2 < 0 \/ d2 <= acc.d2

\* distance < min_distance
Nearer(d2, acc) == acc.d2 < 0 \/ d2 < acc.d2

\* the loop over the points of a ScatterPlotItem, from index idx on
RECURSIVE ScanPoints(_, _, _, _, _, _)
ScanPoints(item, points, idx, scene_pos, threshold, acc) ==
    IF idx >= Len(points) THEN acc
    ELSE LET distance2 == Distance2(mapViewToScene(points[idx + 1]), scene_pos)
         IN ScanPoints(item, points, idx + 1, scene_pos, threshold,
                IF Nearer(distance2, acc) /\ distance2 < threshold * threshold
                THEN [item |-> item, idx |-> idx, d2 |-> distance2]
                ELSE acc)

\* x_center - half_width <= view_pos.x() <= x_center + half_width and
\* 0 <= view_pos.y() <= height, with half_width = width * 0.45 (times 100 pixels)
InBar(view_pos, x_center, height, width) ==
    /\ 100 * PixelsPerUnit * x_center - 45 * PixelsPerUnit * width <= 100 * view_pos[1]
    /\ 100 * view_pos[1] <= 100 * PixelsPerUnit * x_center + 45 * PixelsPerUnit * width
    /\ 0 <= view_pos[2]
    /\ view_pos[2] <= PixelsPerUnit * height

\* the loop over the histogram bars, from index idx on: bars of height 0 are
\* skipped, the first bar that holds the position ends the loop with distance 0
RECURSIVE ScanBars(_, _, _, _, _)
ScanBars(item, hist, idx, view_pos, acc) ==
    IF idx >= Len(hist.x) THEN acc
    ELSE IF hist.heights[idx + 1] = 0 THEN ScanBars(item, hist, idx + 1, view_pos, acc)
    ELSE IF InBar(view_pos, hist.x[idx + 1], hist.heights[idx + 1], hist.width)
    THEN [item |-> item, idx |-> idx, d2 |-> 0]
    ELSE ScanBars(item, hist, idx + 1, view_pos, acc)

\* the loop over plot_item.items, from position k on
RECURSIVE ScanItems(_, _, _, _, _, _)
ScanItems(items, hist, k, scene_pos, threshold, acc) ==
    IF k > Len(items) THEN acc
    ELSE ScanItems(items, hist, k + 1, scene_pos, threshold,
            IF items[k].kind = "scatter"
            THEN ScanPoints(k, items[k].points, 0, scene_pos, threshold, acc)
            ELSE IF items[k].kind = "bar" /\ hist.width > 0
            THEN ScanBars(k, hist, 0, mapSceneToView(scene_pos), acc)
            ELSE acc)

\* _find_nearest_point(scene_pos, plot_widget, threshold); items are named by their
\* position in plot_item.items
_find_nearest_point(scene_pos, plot, threshold) ==
    ScanItems(plot.items, plot.histogram_data, 1, scene_pos, threshold, NothingFound)

\* histogram_data of _plot_histogram: bins of width 1 centred on 0..MaxCoord, each
\* empty or holding two values
Histograms ==
    {[x |-> [i \in 1..(MaxCoord + 1) |-> i - 1], heights |-> h, width |-> 1] :
        h \in [1..(MaxCoord + 1) -> {0, 2}]}

ViewPoints == (0..MaxCoord) \X (0..MaxCoord)
ScatterPlotItem(points) == [kind |-> "scatter", points |-> points]
BarGraphItem == [kind |-> "bar", points |-> <<>>]

\* the plots hit-tested: one scatter collection of up to two points, two
\* collections of one point, or a histogram with at most one scatter collection
\* drawn before or after it
Plots ==
    {[items |-> <<ScatterPlotItem(pts)>>, histogram_data |-> NoHistogram] :
        pts \in {<<>>} \cup {<<p>> : p \in ViewPoints}
                 \cup {<<p, q>> : p \in ViewPoints, q \in ViewPoints}}
    \cup {[items |-> <<ScatterPlotItem(<<p>>), ScatterPlotItem(<<q>>)>>,
           histogram_data |-> NoHistogram] : p \in ViewPoints, q \in ViewPoints}
    \cup {[items |-> <<BarGraphItem>>, histogram_data |-> h] : h \in Histograms}
    \cup {[items |-> <<ScatterPlotItem(<<p>>), BarGraphItem>>, histogram_data |-> h] :
             p \in ViewPoints, h \in Histograms}
    \cup {[items |-> <<BarGraphItem, ScatterPlotItem(<<p>>)>>, histogram_data |-> h] :
             p \in ViewPoints, h \in Histograms}

\* cursor positions: every fourth pixel of the scene around the points
CursorPixels == {4 * i : i \in 0..(2 * MaxCoord + 6)}

InitHit ==
    /\ measurements = <<>>
    /\ group_by = FALSE
    /\ gen = <<>>
    /\ nextId = 1
    /\ undos = 0
    /\ last = NoOp
    /\ pre = <<>>
    /\ PageAtStart
    /\ scene \in Plots
    /\ cursor = <<0, 0>>
    /\ found = [item |-> NoItem, idx |-> NoIndex, tested |-> FALSE]
    /\ NoUi
    /\ NoCalc

\* _on_mouse_moved(pos, plot_widget), up to the result of the hit test; the result
\* depends on the position and the plot alone, so one test per behaviour is followed
MouseMoved(pos) ==
    /\ ~found.tested
    /\ cursor' = pos
    /\ found' = [item |-> _find_nearest_point(pos, scene, Threshold).item,
                 idx |-> _find_nearest_point(pos, scene, Threshold).idx,
                 tested |-> TRUE]
    /\ UNCHANGED <<scene, sessionVars, pageVars, uiVars, calcVars>>

NextHit == \E pos \in CursorPixels \X CursorPixels : MouseMoved(pos)

SpecHit == InitHit /\ [][NextHit]_vars

(***************************************************************************)
(* Properties of hit-testing.                                               *)
(***************************************************************************)
\* the scatter points (item, index) less than the threshold away from the cursor
PointsInReach ==
    {hit \in (1..Len(scene.items)) \X (0..1) :
        /\ scene.items[hit[1]].kind = "scatter"
        /\ hit[2] < Len(scene.items[hit[1]].points)
        /\ Distance2(mapViewToScene(scene.items[hit[1]].points[hit[2] + 1]), cursor)
               < Threshold * Threshold}

PixelDistance2(hit) ==
    Distance2(mapViewToScene(scene.items[hit[1]].points[hit[2] + 1]), cursor)

\* the bars (item, bin) whose drawn rectangle holds the cursor: BarGraphItem draws
\* bin i with width 0.9 * width around its centre, from 0 up to its height
BarsUnderCursor ==
    {hit \in (1..Len(scene.items)) \X (0..MaxCoord) :
        /\ scene.items[hit[1]].kind = "bar"
        /\ scene.histogram_data.heights[hit[2] + 1] > 0
        /\ LET view_pos == mapSceneToView(cursor)
               centre == PixelsPerUnit * scene.histogram_data.x[hit[2] + 1]
           IN /\ 20 * (view_pos[1] - centre) <= 9 * PixelsPerUnit * scene.histogram_data.width
              /\ 20 * (centre - view_pos[1]) <= 9 * PixelsPerUnit * scene.histogram_data.width
              /\ 0 <= view_pos[2]
              /\ view_pos[2] <= PixelsPerUnit * scene.histogram_data.heights[hit[2] + 1]}

\* hit a comes before hit b in render order, then in index order
RenderedBefore(a, b) == a[1] < b[1] \/ (a[1] = b[1] /\ a[2] < b[2])

\* C10: the hit test returns the bar under the cursor whenever there is one,
\* whatever scatter points are near and wherever the bar is in the render order;
\* otherwise the scatter point nearest to the cursor among those less than the
\* threshold (20 pixels) away, the first in render order among equally near ones;
\* and nothing when no point is that near.
C10_HitTest ==
    found.tested =>
        IF BarsUnderCursor # {} THEN <<found.item, found.idx>> \in BarsUnderCursor
        ELSE IF PointsInReach = {} THEN found.item = NoItem /\ found.idx = NoIndex
        ELSE /\ <<found.item, found.idx>> \in PointsInReach
             /\ \A hit \in PointsInReach :
                   \/ hit = <<found.item, found.idx>>
                   \/ PixelDistance2(<<found.item, found.idx>>) < PixelDistance2(hit)
                   \/ /\ PixelDistance2(<<found.item, found.idx>>) = PixelDistance2(hit)
                      /\ RenderedBefore(<<found.item, found.idx>>, hit)

\* the cursor is in a bar while a scatter point drawn after the bar is in reach,
\* and the bar is returned
C10_Witness ==
    /\ found.tested
    /\ BarsUnderCursor # {}
    /\ \E hit \in PointsInReach : hit[1] > found.item
    /\ scene.items[found.item].kind = "bar"

(***************************************************************************)
(* Interaction with one plot widget: hover, selection, tooltip and menus.   *)
(*                                                                          *)
(* ui.g is the generator of the widget, ui.nextId the next fresh identity.  *)
(* The scene emits sigMouseMoved and sigMouseClicked to every handler that  *)
(* setup_interactivity connected, in the order of connection.               *)
(***************************************************************************)
\* the largest number of records of the plot interacted with
MaxPoints == 2

\* item.original_sizes * 1.5
HoverSize == 15

\* a position inside the plot far from every item, and one outside
\* plot_item.sceneBoundingRect()
Nowhere == <<5000, 5000>>
Outside == <<0 - 5000, 0 - 5000>>

\* Qt.MouseButton.LeftButton, Qt.MouseButton.RightButton
MouseButtons == {"left", "right"}

\* what the user does with an open point menu: trigger "Delete Point", trigger
\* "Undo Deletions", or anything that leaves the plot as it is
MenuChoices == {"dismiss", "delete", "undo"}

\* the items of the widget as _find_nearest_point reads them: item.getData() and
\* self.histogram_data
HitPlot(g) ==
    [items |-> [k \in 1..Len(g.items) |->
                   [kind |-> g.items[k].kind,
                    points |-> IF g.items[k].kind = "scatter"
                               THEN [i \in 1..Len(g.items[k].x) |->
                                        <<g.items[k].x[i], g.items[k].y[i]>>]
                               ELSE <<>>]],
     histogram_data |-> g.histogram_data]

\* _find_nearest_point(pos, plot_widget, threshold=20) with the item by identity
Nearest(g, pos) ==
    LET f == _find_nearest_point(pos, HitPlot(g), Threshold)
    IN IF f.item = NoItem THEN [item |-> NoItem, idx |-> NoIndex, kind |-> "none"]
       ELSE [item |-> g.items[f.item].id, idx |-> f.idx, kind |-> g.items[f.item].kind]

\* _clear_hover_highlight: the sizes of the hover item are set back unless the
\* hover target is the selected point
_clear_hover_highlight(g) ==
    LET restored ==
            IF g.hover_item # NoItem /\ HasItem(g, g.hover_item)
               /\ ItemOf(g, g.hover_item).has_original_sizes
               /\ (g.selected_item # g.hover_item \/ g.selected_index # g.hover_index)
            THEN [g.items EXCEPT ![ItemPos(g, g.hover_item)].size =
                                     [k \in 1..Len(@) |-> BaseSize]]
            ELSE g.items
    IN [g EXCEPT !.items = restored, !.hover_item = NoItem, !.hover_index = NoIndex]

\* _apply_hover_highlight(item, point_idx, plot_widget)
_apply_hover_highlight(g, id, idx) ==
    LET c == IF g.hover_item # id \/ g.hover_index # idx
             THEN _clear_hover_highlight(g) ELSE g
        p == ItemPos(c, id)
    IN IF c.items[p].kind = "scatter" /\ (c.selected_item # id \/ c.selected_index # idx)
       THEN [c EXCEPT !.items[p].has_original_sizes = TRUE,
                      !.items[p].size = [k \in 1..Len(c.items[p].x) |->
                                            IF k = idx + 1 THEN HoverSize ELSE BaseSize],
                      !.hover_item = id,
                      !.hover_index = idx]
       ELSE c

\* _on_mouse_moved(pos, plot_widget)
_on_mouse_moved(g, pos) ==
    IF pos = Outside THEN _clear_hover_highlight(g)
    ELSE IF Nearest(g, pos).item # NoItem
    THEN _apply_hover_highlight(g, Nearest(g, pos).item, Nearest(g, pos).idx)
    ELSE _clear_hover_highlight(g)

\* _show_histogram_tooltip(bar_idx, mouse_point)
_show_histogram_tooltip(g, bar_idx, mouse_point) ==
    IF ~g.tooltip.label \/ g.histogram_data = NoHistogram
       \/ bar_idx >= Len(g.histogram_data.x)
    THEN g
    ELSE [g EXCEPT !.tooltip = [label |-> TRUE, visible |-> TRUE,
                                text |-> 0 - 1 - bar_idx, pos |-> mouse_point]]

\* _show_unified_context_menu(item, point_idx, global_pos, plot_widget): menu.exec
\* returns when the user has triggered an action or dismissed the menu; "Undo
\* Deletions" is offered while deleted_items is not empty
_show_unified_context_menu(u, id, idx, choice) ==
    LET opened == [u EXCEPT !.point_menus = @ + 1]
    IN IF choice = "delete"
       THEN [opened EXCEPT !.g = _delete_point(u.g, id, idx).g]
       ELSE IF choice = "undo" /\ u.g.deleted_items # {} /\ u.g.click_handlers <= MaxUndo
       THEN [opened EXCEPT !.g = reset_deletions(u.g, u.nextId),
                           !.nextId = @ + Len(reset_deletions(u.g, u.nextId).items)]
       ELSE opened

\* _on_plot_clicked(event, plot_widget), one connected handler
_on_plot_clicked(u, pos, button, choice) ==
    LET hit == Nearest(u.g, pos)
        mouse_point == mapSceneToView(pos)
    IN IF pos = Outside THEN u
       ELSE IF hit.item = NoItem
       THEN IF button = "left" THEN [u EXCEPT !.g = _clear_selection(@)] ELSE u
       ELSE IF button = "left"
       THEN IF hit.kind = "bar"
            THEN IF u.g.tooltip.label /\ u.g.config.enable_tooltips
                 THEN [u EXCEPT !.g = _show_histogram_tooltip(@, hit.idx, mouse_point)]
                 ELSE u
            ELSE LET selected == _select_point(u.g, hit.item, hit.idx)
                 IN IF selected.tooltip.label /\ selected.config.enable_tooltips
                    THEN [u EXCEPT !.g = _show_tooltip(selected, hit.item, hit.idx,
                                                       mouse_point)]
                    ELSE [u EXCEPT !.g = selected]
       ELSE IF button = "right" /\ u.g.config.enable_point_deletion /\ hit.kind # "bar"
       THEN _show_unified_context_menu(u, hit.item, hit.idx, choice)
       ELSE u

\* custom_raise_context_menu(event), which the view box calls on a secondary click
\* before the scene emits sigMouseClicked: the default menu unless a point or bar
\* is hit; the wrappers of repeated setup_interactivity calls nest and end in the
\* one original raiseContextMenu
custom_raise_context_menu(g, pos) ==
    IF pos # Outside /\ Nearest(g, pos).item = NoItem THEN 1 ELSE 0

\* scene().sigMouseClicked.emit(event): the handlers connected when the emission
\* starts run one after the other, each with the choice the user makes in its menu
RECURSIVE EmitMouseClicked(_, _, _, _, _, _)
EmitMouseClicked(u, pos, button, choices, k, handlers) ==
    IF k > handlers THEN u
    ELSE EmitMouseClicked(_on_plot_clicked(u, pos, button, choices[k]),
                          pos, button, choices, k + 1, handlers)

\* scene().sigMouseMoved.emit(pos)
RECURSIVE EmitMouseMoved(_, _, _, _)
EmitMouseMoved(g, pos, k, handlers) ==
    IF k > handlers THEN g
    ELSE EmitMouseMoved(_on_mouse_moved(g, pos), pos, k + 1, handlers)

\* the configurations of the widget: the default, tooltips off, point deletion off
UiConfigs ==
    {DefaultConfig,
     [DefaultConfig EXCEPT !.enable_tooltips = FALSE],
     [DefaultConfig EXCEPT !.enable_point_deletion = FALSE]}

\* the cursor positions followed: on each scatter point, on the middle of the
\* base line of the first two histogram bins, far from every item, outside the plot
UiPositions(g) ==
    UNION {{mapViewToScene(<<g.items[k].x[i], g.items[k].y[i]>>) :
               i \in 1..Len(g.items[k].x)} :
           k \in {j \in 1..Len(g.items) : g.items[j].kind = "scatter"}}
    \cup {mapViewToScene(<<b, 0>>) : b \in {c \in 0..1 : g.histogram_data # NoHistogram}}
    \cup {Nowhere, Outside}

\* no event yet, the cursor outside the plot
NoShot == [op |-> "none", button |-> "none", pos |-> Outside, default_menus |-> 0]

\* GraphPage._create_plot with the configuration c: generator, prepare_data,
\* plot_data, setup_interactivity
InitUi ==
    /\ measurements \in {ms \in MeasurementLists :
                             /\ Len(ms) <= MaxPoints
                             /\ \A i \in 1..Len(ms) : ~ms[i].plot}
    /\ group_by \in BOOLEAN
    /\ ~group_by => \A i \in 1..Len(measurements) : measurements[i].grp = "A"
    \* a grouping field is followed when it makes more than one group
    /\ group_by => \E i \in 1..Len(measurements) : measurements[i].grp # "A"
    /\ gen = <<>>
    /\ nextId = 1
    /\ undos = 0
    /\ last = NoOp
    /\ pre = <<>>
    /\ PageAtStart
    /\ NoScene
    /\ NoCalc
    /\ \E graph_type \in DisplayTypes, c \in UiConfigs :
          LET g == setup_interactivity(plot_data(
                       [NewGenerator(measurements, group_by, graph_type)
                            EXCEPT !.config = c], 1))
          IN ui = [g |-> g, nextId |-> 1 + Len(g.items), point_menus |-> 0]
    /\ shot = NoShot

\* the cursor moves to pos
UiMouseMoved(pos) ==
    /\ pos \in UiPositions(ui.g)
    /\ ui' = [ui EXCEPT !.g = EmitMouseMoved(@, pos, 1, ui.g.hover_handlers),
                        !.point_menus = 0]
    /\ shot' = [op |-> "move", button |-> "none", pos |-> pos, default_menus |-> 0]
    /\ UNCHANGED <<sessionVars, pageVars, hitVars, calcVars>>

\* a click of the button at pos, where the cursor is; the view box handles a
\* secondary click first
UiMouseClicked(pos, button, choices) ==
    /\ pos \in UiPositions(ui.g)
    /\ pos = shot.pos
    /\ LET u == EmitMouseClicked([ui EXCEPT !.point_menus = 0], pos, button, choices,
                                 1, ui.g.click_handlers)
       IN /\ ui' = u
          /\ shot' = [op |-> "click", button |-> button, pos |-> pos,
                      default_menus |-> IF button = "right"
                                        THEN custom_raise_context_menu(ui.g, pos) ELSE 0]
    /\ UNCHANGED <<sessionVars, pageVars, hitVars, calcVars>>

NextUi ==
    \/ \E pos \in UiPositions(ui.g) : UiMouseMoved(pos)
    \/ \E pos \in UiPositions(ui.g), button \in MouseButtons,
          choices \in [1..(MaxUndo + 1) -> MenuChoices] :
             \* no menu of a primary click asks for a choice; of the menus of one
             \* secondary click the user acts in the first and dismisses the others
             /\ button = "left" => choices[1] = "dismiss"
             /\ \A k \in DOMAIN choices : k > 1 => choices[k] = "dismiss"
             /\ UiMouseClicked(pos, button, choices)

SpecUi == InitUi /\ [][NextUi]_vars

(***************************************************************************)
(* Properties of the interaction.                                           *)
(***************************************************************************)
\* the points (item, index) of scatter items drawn at the given size
DrawnAt(g, size) ==
    UNION {{<<g.items[k].id, i - 1>> : i \in {j \in 1..Len(g.items[k].size) :
                                                g.items[k].size[j] = size}} :
           k \in {j \in 1..Len(g.items) : g.items[j].kind = "scatter"}}

\* all points (item, index) of scatter items
ScatterPoints(g) ==
    UNION {{<<g.items[k].id, i - 1>> : i \in 1..Len(g.items[k].x)} :
           k \in {j \in 1..Len(g.items) : g.items[j].kind = "scatter"}}

\* the step is a click of the button inside the plot
ClickInside(button) ==
    /\ shot'.op = "click"
    /\ shot'.button = button
    /\ shot'.pos # Outside

\* the selection and the tooltip after a primary click, given the hit of the click
\* and whether a tooltip is due on a hit
AfterPrimaryClick(hit, tooltip_due) ==
    /\ hit.kind = "scatter" =>
          /\ ui'.g.selected_item = hit.item
          /\ ui'.g.selected_index = hit.idx
          /\ tooltip_due =>
                /\ ui'.g.tooltip.visible
                /\ ui'.g.tooltip.pos = mapSceneToView(shot'.pos)
                /\ ui'.g.tooltip.text = ui.g.point_measurement_map[<<hit.item, hit.idx>>].id
    /\ hit.kind = "none" =>
          /\ ui'.g.selected_item = NoItem
          /\ ui'.g.selected_index = NoIndex
          /\ ~ui'.g.tooltip.visible
    /\ Cardinality(DrawnAt(ui'.g, SelectedSize)) <= 1

\* C11 (as claimed): a primary click inside the plot that hits a point selects that
\* point and shows the tooltip at the cursor, whatever the configuration; one that
\* hits nothing leaves no point selected and the tooltip hidden; at most one point
\* is drawn selected.
C11_PrimaryClick ==
    [][ClickInside("left") => AfterPrimaryClick(Nearest(ui.g, shot'.pos), TRUE)]_vars

\* C11 (amended): a primary click inside the plot that hits a point selects that
\* point and, when tooltips are enabled, shows the tooltip of the point's record at
\* the cursor; one that hits nothing leaves no point selected and the tooltip
\* hidden; at most one point is drawn selected.
C11_PrimaryClickTooltipsEnabled ==
    [][ClickInside("left") =>
           AfterPrimaryClick(Nearest(ui.g, shot'.pos), ui.g.config.enable_tooltips)]_vars

\* a primary click on a point selected it while another point was selected before,
\* and the tooltip is shown at the cursor
C11_Witness ==
    /\ shot.op = "click"
    /\ shot.button = "left"
    /\ Nearest(ui.g, shot.pos).kind = "scatter"
    /\ ui.g.selected_item = Nearest(ui.g, shot.pos).item
    /\ ui.g.selected_index = Nearest(ui.g, shot.pos).idx
    /\ ui.g.tooltip.visible
    /\ ui.g.tooltip.pos = mapSceneToView(shot.pos)
    /\ DrawnAt(ui.g, SelectedSize) = {<<ui.g.selected_item, ui.g.selected_index>>}
    /\ Cardinality(ScatterPoints(ui.g)) > 1
    /\ ui.g.hover_item # NoItem

\* C12 (as claimed): a secondary click inside the plot that hits a point while point
\* deletion is enabled opens the point menu and not the default menu; one that hits
\* nothing opens the default menu; every secondary click opens exactly one menu.
C12_SecondaryClick ==
    [][ClickInside("right") =>
           LET hit == Nearest(ui.g, shot'.pos)
           IN /\ (hit.kind = "scatter" /\ ui.g.config.enable_point_deletion) =>
                     (ui'.point_menus = 1 /\ shot'.default_menus = 0)
              /\ hit.kind = "none" =>
                     (ui'.point_menus = 0 /\ shot'.default_menus = 1)
              /\ ui'.point_menus + shot'.default_menus = 1]_vars

\* C13 (as claimed): in every state a point of a scatter collection is drawn at 1.8
\* times the base size iff it is the selected point, at 1.5 times the base size iff
\* it is the hovered point and not selected, and at the base size otherwise.
C13_SizesFollowState ==
    \A point \in ScatterPoints(ui.g) :
        LET selected == ui.g.selected_item = point[1] /\ ui.g.selected_index = point[2]
            hovered == ui.g.hover_item = point[1] /\ ui.g.hover_index = point[2]
        IN /\ point \in DrawnAt(ui.g, SelectedSize) <=> selected
           /\ point \in DrawnAt(ui.g, HoverSize) <=> (hovered /\ ~selected)
           /\ point \in DrawnAt(ui.g, BaseSize) <=> (~hovered /\ ~selected)

(***************************************************************************)
(* prepare_data as a function of the measurement list and the configuration.*)
(***************************************************************************)
\* the largest number of records of a list handed to prepare_data
MaxRecords == 4

\* the values of the grouping field
FieldValues == {"A", "B", "C"}

\* the measurement lists prepared: ids in list order, any record may carry a plot
\* series, the first record's field value is called "A"
RecordLists ==
    UNION {{ms \in [1..n -> [id : 1..n, grp : FieldValues, plot : BOOLEAN]] :
                /\ \A i \in 1..n : ms[i].id = i
                /\ ms[1].grp = "A"} : n \in 1..MaxRecords}

NotCalled == [done |-> FALSE]

\* the rest of the program while one function is followed
CalcOnly ==
    /\ measurements = <<>>
    /\ group_by = FALSE
    /\ gen = <<>>
    /\ nextId = 1
    /\ undos = 0
    /\ last = NoOp
    /\ pre = <<>>
    /\ PageAtStart
    /\ NoScene
    /\ NoUi

InitPrepare ==
    /\ CalcOnly
    /\ arg \in [ms : RecordLists, grouped : BOOLEAN, graph_type : DisplayTypes]
    /\ ~arg.grouped => \A i \in 1..Len(arg.ms) : arg.ms[i].grp = "A"
    /\ result = NotCalled

\* generator.prepare_data() for config.measurements = arg.ms
PrepareData ==
    /\ ~result.done
    /\ result' = [done |-> TRUE, value |-> prepare_data(arg.ms, arg.grouped, arg.graph_type)]
    /\ UNCHANGED <<arg, sessionVars, pageVars, hitVars, uiVars>>

NextPrepare == PrepareData

SpecPrepare == InitPrepare /\ [][NextPrepare]_vars

\* the prepared groups that have points, in group order
RECURSIVE WithPoints(_)
WithPoints(groups) ==
    IF groups = <<>> THEN <<>>
    ELSE IF Len(Head(groups).x_data) > 0
    THEN <<Head(groups)>> \o WithPoints(Tail(groups))
    ELSE WithPoints(Tail(groups))

\* C14: in an index-based scatter the x indices of every group are contiguous, the
\* first group with points starts at 0, and every later group with points starts
\* two above the last index of the group with points before it, so that exactly
\* one index between them is unused; no index is assigned twice.
C14_GlobalIndex ==
    (result.done /\ arg.graph_type = "Scatter") =>
        LET filled == WithPoints(result.value.groups)
        IN /\ \A j \in 1..Len(filled) :
                 \A k \in 1..Len(filled[j].x_data) :
                     filled[j].x_data[k] = filled[j].x_data[1] + (k - 1)
           /\ filled # <<>> => filled[1].x_data[1] = 0
           /\ \A j \in 2..Len(filled) :
                 filled[j].x_data[1]
                     = filled[j - 1].x_data[Len(filled[j - 1].x_data)] + 2
           /\ \A j \in 1..Len(filled), i \in 1..Len(filled) :
                 \A k \in 1..Len(filled[j].x_data), l \in 1..Len(filled[i].x_data) :
                     filled[j].x_data[k] = filled[i].x_data[l] => (j = i /\ k = l)

\* three groups, the middle one without points, were given the indices {0, 1} and {3}
C14_Witness ==
    /\ result.done
    /\ arg.graph_type = "Scatter"
    /\ Len(result.value.groups) = 3
    /\ result.value.groups[1].x_data = <<0, 1>>
    /\ result.value.groups[2].x_data = <<>>
    /\ result.value.groups[3].x_data = <<3>>

(***************************************************************************)
(* Pairing: the functions that turn a measurement list into paired points.  *)
(*                                                                          *)
(* A record has the fields the pairing functions read: name, measurement    *)
(* (NoNumber for None), nominal, the device serial number, the test fixture *)
(* and the batch of its test log ("None" when missing) and created_at (the  *)
(* sort key, 0 for datetime.min when it is None).                           *)
(***************************************************************************)
\* the largest number of records of a list handed to a pairing function
MaxBucket == 3

None == "None"
NoNumber == 0 - 1

Serials == {"S1", "S2"}
\* the fixture names in sorted order
Fixtures == <<"F1", "F2", "F3">>
Batches == {"B1", "B2", "B3"}
Strategies == {"first", "last", "best"}

\* config.x_axis_measurement, the name of the measurement compared
target_measurement == "target"

\* the nominal value of the records that have one
Nominal == 25

Abs(x) == IF x < 0 THEN 0 - x ELSE x

SeqToSet(q) == {q[i] : i \in 1..Len(q)}

RECURSIVE FirstSeen(_)
\* the distinct elements of a sequence in first-encountered order: the keys of a
\* dict filled in the order of the sequence
FirstSeen(keys) ==
    IF keys = <<>> THEN <<>>
    ELSE LET rest == FirstSeen(SubSeq(keys, 1, Len(keys) - 1))
         IN IF keys[Len(keys)] \in SeqToSet(rest) THEN rest
            ELSE Append(rest, keys[Len(keys)])

\* a record with the measurement 10 * id, of the target name
PairRecord(id, serial, fixture, batch, nominal, created_at) ==
    [id |-> id, name |-> target_measurement, measurement |-> 10 * id,
     nominal |-> nominal, serial |-> serial, fixture |-> fixture, batch |-> batch,
     created_at |-> created_at]

\* the lists of n records whose first record is drawn from firsts and whose other
\* records are drawn from others; ids are the positions in the list, and records
\* drawn with the measurement of PairRecord get the measurement 10 * id
ListsOf(n, firsts, others, numbered) ==
    {[i \in 1..n |->
         LET r == IF i = 1 THEN f ELSE t[i - 1]
         IN [r EXCEPT !.id = i,
                      !.measurement = IF numbered /\ @ # NoNumber THEN 10 * i ELSE @]] :
        f \in firsts, t \in [1..(n - 1) -> others]}

\* best_score loop of the 'best' strategy from position k on: the first record with
\* the least abs(m.measurement - m.nominal) among those with a nominal; 0 for None
RECURSIVE BestFrom(_, _, _)
BestFrom(ms, k, best) ==
    IF k > Len(ms) THEN best
    ELSE BestFrom(ms, k + 1,
            IF ms[k].nominal # NoNumber
               /\ (best = 0
                   \/ Abs(ms[k].measurement - ms[k].nominal)
                        < Abs(ms[best].measurement - ms[best].nominal))
            THEN k ELSE best)

\* _apply_pairing_strategy with the fallback of 'best' on the first record
_apply_pairing_strategy_fallback_first(ms, strategy) ==
    IF strategy = "first" THEN ms[1]
    ELSE IF strategy = "best"
    THEN ms[IF BestFrom(ms, 1, 0) # 0
                      THEN BestFrom(ms, 1, 0) ELSE 1]
    ELSE ms[Len(ms)]

\* _apply_pairing_strategy(ms) under config.pairing_strategy, for a list
\* that is not empty
_apply_pairing_strategy(ms, strategy) ==
    IF strategy = "first" THEN ms[1]
    ELSE IF strategy = "best"
    THEN ms[IF BestFrom(ms, 1, 0) # 0
                      THEN BestFrom(ms, 1, 0) ELSE Len(ms)]
    ELSE ms[Len(ms)]

\* the records of a list that have the serial number and the fixture
OfDeviceAndFixture(ms, serial, fixture) ==
    SelectSeq(ms, LAMBDA m : m.serial = serial /\ m.fixture = fixture)

\* the fixtures of the device's records, in first-encountered order
FixturesOf(ms, serial) ==
    LET own == SelectSeq(ms, LAMBDA m : m.serial = serial)
    IN FirstSeen([i \in 1..Len(own) |-> own[i].fixture])

\* GraphPage._pair_by_test_fixture(measurements)
_pair_by_test_fixture(ms) ==
    LET kept == SelectSeq(ms,
                          LAMBDA m : m.serial # None /\ m.fixture # None
                                     /\ m.measurement # NoNumber)
        devices == FirstSeen([i \in 1..Len(kept) |-> kept[i].serial])
        paired == SelectSeq(devices, LAMBDA d : Len(FixturesOf(kept, d)) >= 2)
    IN [k \in 1..Len(paired) |->
           LET fixture_a == FixturesOf(kept, paired[k])[1]
               fixture_b == FixturesOf(kept, paired[k])[2]
           IN [device_id |-> paired[k],
               our_measurement |-> OfDeviceAndFixture(kept, paired[k], fixture_a)[1],
               other_measurement |-> OfDeviceAndFixture(kept, paired[k], fixture_b)[1],
               fixture_a |-> fixture_a,
               fixture_b |-> fixture_b]]

\* sorted(fixtures_dict.keys()) for keys that are all strings
SortedFixtures(keys) == SelectSeq(Fixtures, LAMBDA f : f \in SeqToSet(keys))

\* MeasurementGraphGenerator._extract_comparison_same(ms): raised is
\* the TypeError of sorted() over the fixture keys None and a string of one device
_extract_comparison_same(ms, strategy) ==
    LET kept == SelectSeq(ms,
                          LAMBDA m : m.name = target_measurement
                                     /\ m.measurement # NoNumber /\ m.serial # None)
        devices == FirstSeen([i \in 1..Len(kept) |-> kept[i].serial])
        paired == SelectSeq(devices, LAMBDA d : Len(FixturesOf(kept, d)) >= 2)
        pairs == [k \in 1..Len(paired) |->
                     LET fixtures == SortedFixtures(FixturesOf(kept, paired[k]))
                     IN <<_apply_pairing_strategy(
                              OfDeviceAndFixture(kept, paired[k], fixtures[1]), strategy),
                          _apply_pairing_strategy(
                              OfDeviceAndFixture(kept, paired[k], fixtures[2]), strategy)>>]
    IN IF \E k \in 1..Len(paired) : None \in SeqToSet(FixturesOf(kept, paired[k]))
       THEN [raised |-> TRUE]
       ELSE [raised |-> FALSE,
             x_data |-> [k \in 1..Len(pairs) |-> pairs[k][1].measurement],
             y_data |-> [k \in 1..Len(pairs) |-> pairs[k][2].measurement],
             measurement_pairs |-> pairs]

RECURSIVE InsertByCount(_, _, _)
\* b put into a list sorted by falling record count, after the entries that have at
\* least as many records
InsertByCount(sorted, b, count) ==
    IF sorted = <<>> THEN <<b>>
    ELSE IF count[Head(sorted)] >= count[b]
    THEN <<Head(sorted)>> \o InsertByCount(Tail(sorted), b, count)
    ELSE <<b>> \o sorted

RECURSIVE SortByCountAscending(_, _)
\* SortByCount without reverse=True
SortByCountAscending(names, count) ==
    IF names = <<>> THEN <<>>
    ELSE LET rest == SortByCountAscending(SubSeq(names, 1, Len(names) - 1), count)
             b == names[Len(names)]
             before == SelectSeq(rest, LAMBDA a : count[a] <= count[b])
             after == SelectSeq(rest, LAMBDA a : count[a] > count[b])
         IN before \o <<b>> \o after

RECURSIVE SortByCount(_, _)
\* sorted(batch_names, key=lambda b: len(batch_measurements[b]), reverse=True): the
\* sort is stable, batches with equally many records keep their order
SortByCount(names, count) ==
    IF names = <<>> THEN <<>>
    ELSE InsertByCount(SortByCount(SubSeq(names, 1, Len(names) - 1), count),
                       names[Len(names)], count)

RECURSIVE SumOf(_)
SumOf(ms) == IF ms = <<>> THEN 0 ELSE Head(ms).measurement + SumOf(Tail(ms))

\* GraphPage._pair_by_batch(ms, batch_type); the average of batch B is
\* kept as the pair <<sum, count>>
_pair_by_batch(ms) ==
    LET kept == SelectSeq(ms,
                          LAMBDA m : m.batch # None /\ m.measurement # NoNumber)
        batch_names == FirstSeen([i \in 1..Len(kept) |-> kept[i].batch])
        OfBatch(b) == SelectSeq(kept, LAMBDA m : m.batch = b)
        Count(b) == Len(OfBatch(b))
        sorted_batches == SortByCount(batch_names,
                                      [b \in SeqToSet(batch_names) |-> Count(b)])
    IN IF Len(batch_names) < 2 THEN <<>>
       ELSE LET batch_a == sorted_batches[1]
                batch_b == sorted_batches[2]
            IN [k \in 1..Count(batch_a) |->
                   [our_measurement |-> OfBatch(batch_a)[k],
                    mfr_value |-> <<SumOf(OfBatch(batch_b)), Count(batch_b)>>,
                    batch_a |-> batch_a,
                    batch_b |-> batch_b]]

\* the position in device_ms of sorted_ms[0]: the first record with the least key
EarliestOf(device_ms) ==
    CHOOSE i \in 1..Len(device_ms) :
        /\ \A j \in 1..Len(device_ms) : device_ms[i].created_at <= device_ms[j].created_at
        /\ \A j \in 1..(i - 1) : device_ms[j].created_at # device_ms[i].created_at

\* the position in device_ms of sorted_ms[-1]: the last record with the greatest key
LatestOf(device_ms) ==
    CHOOSE i \in 1..Len(device_ms) :
        /\ \A j \in 1..Len(device_ms) : device_ms[j].created_at <= device_ms[i].created_at
        /\ \A j \in (i + 1)..Len(device_ms) : device_ms[j].created_at # device_ms[i].created_at

\* _pair_first_last_tests without the sort: the first and the last record in list order
_pair_first_last_tests_unsorted(ms) ==
    LET kept == SelectSeq(ms,
                          LAMBDA m : m.serial # None /\ m.measurement # NoNumber)
        devices == FirstSeen([i \in 1..Len(kept) |-> kept[i].serial])
        OfDevice(d) == SelectSeq(kept, LAMBDA m : m.serial = d)
        paired == SelectSeq(devices, LAMBDA d : Len(OfDevice(d)) >= 2)
    IN [k \in 1..Len(paired) |->
           [device_id |-> paired[k],
            our_measurement |-> OfDevice(paired[k])[Len(OfDevice(paired[k]))],
            other_measurement |-> OfDevice(paired[k])[1]]]

\* GraphPage._pair_first_last_tests(ms)
_pair_first_last_tests(ms) ==
    LET kept == SelectSeq(ms,
                          LAMBDA m : m.serial # None /\ m.measurement # NoNumber)
        devices == FirstSeen([i \in 1..Len(kept) |-> kept[i].serial])
        OfDevice(d) == SelectSeq(kept, LAMBDA m : m.serial = d)
        paired == SelectSeq(devices, LAMBDA d : Len(OfDevice(d)) >= 2)
    IN [k \in 1..Len(paired) |->
           [device_id |-> paired[k],
            our_measurement |-> OfDevice(paired[k])[LatestOf(OfDevice(paired[k]))],
            other_measurement |-> OfDevice(paired[k])[EarliestOf(OfDevice(paired[k]))]]]

\* the lists handed to the fixture pairings: every record on a device and a fixture;
\* the first record may lack its serial number, its fixture or its measurement, or
\* be of another name; either every record has a nominal or none has
FixtureLists ==
    UNION {ListsOf(n,
               {PairRecord(0, s, f, "B1", nom, 1) : s \in Serials, f \in SeqToSet(Fixtures)}
               \cup {PairRecord(0, None, "F2", "B1", nom, 1),
                     PairRecord(0, "S1", None, "B1", nom, 1),
                     [PairRecord(0, "S1", "F2", "B1", nom, 1) EXCEPT !.measurement = NoNumber],
                     [PairRecord(0, "S1", "F2", "B1", nom, 1) EXCEPT !.name = "other"]},
               {PairRecord(0, s, f, "B1", nom, 1) : s \in Serials, f \in SeqToSet(Fixtures)},
               TRUE) : n \in 1..MaxBucket, nom \in {NoNumber, Nominal}}

\* the buckets handed to the pairing strategy: ms 0..2, nominal 1 or None
Buckets ==
    UNION {ListsOf(n,
               {[PairRecord(0, "S1", "F1", "B1", nom, 1) EXCEPT !.measurement = v] :
                   v \in 0..2, nom \in {NoNumber, 1}},
               {[PairRecord(0, "S1", "F1", "B1", nom, 1) EXCEPT !.measurement = v] :
                   v \in 0..2, nom \in {NoNumber, 1}},
               FALSE) : n \in 1..MaxBucket}

\* the lists handed to batch pairing: every record of a batch; the first record may
\* lack its batch or its measurement
BatchLists ==
    UNION {ListsOf(n,
               {PairRecord(0, "S1", "F1", b, NoNumber, 1) : b \in Batches \cup {None}}
               \cup {[PairRecord(0, "S1", "F1", "B3", NoNumber, 1)
                          EXCEPT !.measurement = NoNumber]},
               {PairRecord(0, "S1", "F1", b, NoNumber, 1) : b \in Batches},
               TRUE) : n \in 1..(MaxBucket + 1)}

\* the lists handed to first-vs-last pairing: every record of a device, created at
\* time 1 or 2; the first record may lack its serial number, its measurement or
\* its timestamp
FirstLastLists ==
    UNION {ListsOf(n,
               {PairRecord(0, s, "F1", "B1", NoNumber, t) : s \in Serials \cup {None},
                                                            t \in 0..2}
               \cup {[PairRecord(0, "S1", "F1", "B1", NoNumber, 1)
                          EXCEPT !.measurement = NoNumber]},
               {PairRecord(0, s, "F1", "B1", NoNumber, t) : s \in Serials, t \in 1..2},
               TRUE) : n \in 1..(MaxBucket + 1)}

InitPairing ==
    /\ CalcOnly
    /\ arg \in [fn : {"_pair_by_test_fixture"}, ms : FixtureLists, strategy : Strategies]
           \cup [fn : {"_extract_comparison_same"}, ms : FixtureLists, strategy : Strategies]
           \cup [fn : {"_apply_pairing_strategy"}, ms : Buckets, strategy : Strategies]
           \cup [fn : {"_pair_by_batch"}, ms : BatchLists, strategy : {"first"}]
           \cup [fn : {"_pair_first_last_tests"}, ms : FirstLastLists, strategy : {"first"}]
    /\ result = NotCalled

Returned(value) ==
    /\ ~result.done
    /\ result' = [done |-> TRUE, value |-> value]
    /\ UNCHANGED <<arg, sessionVars, pageVars, hitVars, uiVars>>

PairByTestFixture ==
    /\ arg.fn = "_pair_by_test_fixture"
    /\ Returned(_pair_by_test_fixture(arg.ms))

ExtractComparisonSame ==
    /\ arg.fn = "_extract_comparison_same"
    /\ Returned(_extract_comparison_same(arg.ms, arg.strategy))

ApplyPairingStrategy ==
    /\ arg.fn = "_apply_pairing_strategy"
    /\ Returned(_apply_pairing_strategy(arg.ms, arg.strategy))

PairByBatch ==
    /\ arg.fn = "_pair_by_batch"
    /\ Returned(_pair_by_batch(arg.ms))

PairFirstLastTests ==
    /\ arg.fn = "_pair_first_last_tests"
    /\ Returned(_pair_first_last_tests(arg.ms))

NextPairing ==
    \/ PairByTestFixture
    \/ ExtractComparisonSame
    \/ ApplyPairingStrategy
    \/ PairByBatch
    \/ PairFirstLastTests

SpecPairing == InitPairing /\ [][NextPairing]_vars

(***************************************************************************)
(* Properties of the pairing functions.                                     *)
(***************************************************************************)
Called(fn) == result.done /\ arg.fn = fn

\* the position of the first x in a sequence
PosIn(q, x) == CHOOSE i \in 1..Len(q) : q[i] = x /\ \A j \in 1..(i - 1) : q[j] # x

\* the two sides of the one point of every device with records on two fixtures: the
\* records the strategy selects on the first two fixtures the device is seen on
FixturePoints(ms, strategy) ==
    LET kept == SelectSeq(ms, LAMBDA m : m.serial # None /\ m.fixture # None
                                         /\ m.measurement # NoNumber)
        devices == FirstSeen([i \in 1..Len(kept) |-> kept[i].serial])
        paired == SelectSeq(devices,
                            LAMBDA d : Cardinality({m.fixture : m \in
                                           {r \in SeqToSet(kept) : r.serial = d}}) >= 2)
    IN [k \in 1..Len(paired) |->
           LET own == SelectSeq(kept, LAMBDA m : m.serial = paired[k])
               seen == FirstSeen([i \in 1..Len(own) |-> own[i].fixture])
               Side(f) == LET bucket == SelectSeq(own, LAMBDA m : m.fixture = f)
                          IN IF strategy = "first" THEN bucket[1]
                             ELSE IF strategy = "last" THEN bucket[Len(bucket)]
                             ELSE _apply_pairing_strategy(bucket, "best")
           IN <<Side(seen[1]), Side(seen[2])>>]

\* C15: fixture pairing gives every device with records on at least two fixtures
\* exactly one point, whose sides are the records the configured strategy selects
\* on the first two fixtures in first-encountered order, and gives no point to any
\* other device.
C15_FixturePairing ==
    /\ Called("_pair_by_test_fixture") =>
          [k \in 1..Len(result.value) |->
              <<result.value[k].our_measurement, result.value[k].other_measurement>>]
            = FixturePoints(arg.ms, arg.strategy)
    /\ Called("_extract_comparison_same") =>
          /\ ~result.value.raised
          /\ result.value.measurement_pairs
               = FixturePoints(SelectSeq(arg.ms, LAMBDA m : m.name = target_measurement),
                               arg.strategy)

\* C16: from a bucket that is not empty, 'first' selects the first record, 'last'
\* the last record, and 'best' a record with the least |value - nominal| among the
\* records with a nominal, or the last record when no record has a nominal.
C16_PairingStrategy ==
    Called("_apply_pairing_strategy") =>
        LET ms == arg.ms
            candidates == {i \in 1..Len(ms) : ms[i].nominal # NoNumber}
            Score(i) == Abs(ms[i].measurement - ms[i].nominal)
        IN CASE arg.strategy = "first" -> result.value = ms[1]
             [] arg.strategy = "last" -> result.value = ms[Len(ms)]
             [] arg.strategy = "best" ->
                   IF candidates = {} THEN result.value = ms[Len(ms)]
                   ELSE \E i \in candidates :
                           /\ result.value = ms[i]
                           /\ \A j \in candidates : Score(i) <= Score(j)

\* 'best' selected a record that is neither the first nor the last of its bucket,
\* ahead of a record without a nominal and one with a greater distance
C16_Witness ==
    /\ Called("_apply_pairing_strategy")
    /\ arg.strategy = "best"
    /\ Len(arg.ms) = 3
    /\ result.value = arg.ms[2]
    /\ arg.ms[1].nominal = NoNumber
    /\ arg.ms[3].nominal # NoNumber

\* C17: batch pairing selects the two batches with the most records, ties going to
\* the batch encountered first, and gives one point per record of the first of them,
\* each against the mean of the second; with fewer than two batches it returns the
\* empty list.
C17_BatchPairing ==
    Called("_pair_by_batch") =>
        LET kept == SelectSeq(arg.ms, LAMBDA m : m.batch # None /\ m.measurement # NoNumber)
            names == FirstSeen([i \in 1..Len(kept) |-> kept[i].batch])
            Members(b) == SelectSeq(kept, LAMBDA m : m.batch = b)
            Ahead(a, c) == \/ Len(Members(a)) > Len(Members(c))
                           \/ /\ Len(Members(a)) = Len(Members(c))
                              /\ PosIn(names, a) < PosIn(names, c)
        IN IF Len(names) < 2 THEN result.value = <<>>
           ELSE \E a, b \in SeqToSet(names) :
                   /\ a # b
                   /\ \A c \in SeqToSet(names) \ {a} : Ahead(a, c)
                   /\ \A c \in SeqToSet(names) \ {a, b} : Ahead(b, c)
                   /\ Len(result.value) = Len(Members(a))
                   /\ \A k \in 1..Len(result.value) :
                         /\ result.value[k].our_measurement = Members(a)[k]
                         /\ result.value[k].mfr_value
                              = <<SumOf(Members(b)), Len(Members(b))>>

\* three batches, one of two records and two of one record each: the batch of two
\* is compared against the one-record batch that came first in the list
C17_Witness ==
    /\ Called("_pair_by_batch")
    /\ Cardinality({arg.ms[i].batch : i \in 1..Len(arg.ms)}) = 3
    /\ None \notin {arg.ms[i].batch : i \in 1..Len(arg.ms)}
    /\ Len(result.value) = 2
    /\ result.value[1].batch_b = arg.ms[1].batch
    /\ result.value[1].mfr_value = <<10, 1>>

\* C18: first-vs-last pairing gives every device with at least two valued records
\* exactly one point, of the device's earliest record by timestamp (comparison
\* side) and its latest (our side), and gives no point to any other device.
C18_FirstLastPairing ==
    Called("_pair_first_last_tests") =>
        LET kept == SelectSeq(arg.ms, LAMBDA m : m.serial # None /\ m.measurement # NoNumber)
            Own(d) == {m \in SeqToSet(kept) : m.serial = d}
            devices == SelectSeq(FirstSeen([i \in 1..Len(kept) |-> kept[i].serial]),
                                 LAMBDA d : Cardinality(Own(d)) >= 2)
        IN /\ Len(result.value) = Len(devices)
           /\ \A k \in 1..Len(devices) :
                 /\ result.value[k].device_id = devices[k]
                 /\ result.value[k].other_measurement \in Own(devices[k])
                 /\ result.value[k].our_measurement \in Own(devices[k])
                 /\ \A m \in Own(devices[k]) :
                       /\ result.value[k].other_measurement.created_at <= m.created_at
                       /\ m.created_at <= result.value[k].our_measurement.created_at

\* a device whose records are listed latest first is paired, a device with one
\* record is not
C18_Witness ==
    /\ Called("_pair_first_last_tests")
    /\ Len(arg.ms) = 3
    /\ Cardinality({arg.ms[i].serial : i \in 1..3}) = 2
    /\ Len(result.value) = 1
    /\ result.value[1].our_measurement = arg.ms[1]
    /\ result.value[1].other_measurement.created_at
         < result.value[1].our_measurement.created_at

(***************************************************************************)
(* detect_outliers(values, n_std) as a function.                            *)
(*                                                                          *)
(* A missing value is NaN.  With n valid values of sum S and sum of squares *)
(* Q, the mean is S / n and the square of np.std is (n * Q - S * S) / n^2,  *)
(* so that abs((v - mean) / std) > n_std is                                 *)
(*     (n * v - S)^2 > n_std^2 * (n * Q - S * S)                            *)
(* in exact arithmetic; the rounding of the floating-point division is not  *)
(* modelled.                                                                *)
(***************************************************************************)
\* the largest number of values handed to detect_outliers
MaxValues == 12

\* the default of n_std
NStd == 3

NaN == NoNumber

RECURSIVE SumSeq(_)
SumSeq(q) == IF q = <<>> THEN 0 ELSE Head(q) + SumSeq(Tail(q))

AllFalse(values) == [i \in 1..Len(values) |-> FALSE]

\* detect_outliers with z_scores >= n_std
detect_outliers_inclusive(values) ==
    LET valid == SelectSeq(values, LAMBDA v : v # NaN)
        n == Len(valid)
        S == SumSeq(valid)
        Q == SumSeq([i \in 1..n |-> valid[i] * valid[i]])
    IN IF Len(values) < 3 THEN AllFalse(values)
       ELSE IF n < 3 THEN AllFalse(values)
       ELSE IF n * Q - S * S = 0 THEN AllFalse(values)
       ELSE [i \in 1..Len(values) |->
                /\ values[i] # NaN
                /\ (n * values[i] - S) * (n * values[i] - S)
                     >= NStd * NStd * (n * Q - S * S)]

\* detect_outliers(values) with the default n_std
detect_outliers(values) ==
    LET valid == SelectSeq(values, LAMBDA v : v # NaN)
        n == Len(valid)
        S == SumSeq(valid)
        Q == SumSeq([i \in 1..n |-> valid[i] * valid[i]])
    IN IF Len(values) < 3 THEN AllFalse(values)
       ELSE IF n < 3 THEN AllFalse(values)
       ELSE IF n * Q - S * S = 0 THEN AllFalse(values)
       ELSE [i \in 1..Len(values) |->
                /\ values[i] # NaN
                /\ (n * values[i] - S) * (n * values[i] - S)
                     > NStd * NStd * (n * Q - S * S)]

\* the lists of up to MaxValues values 0 or 1, whose first two may be missing
ValueLists ==
    UNION {{q \in [1..n -> {0, 1, NaN}] : \A i \in 3..n : q[i] # NaN} : n \in 0..2}
    \cup UNION {{h \o t : h \in [1..2 -> {0, 1, NaN}], t \in [1..(n - 2) -> {0, 1}]} :
                   n \in 3..MaxValues}

InitOutliers ==
    /\ CalcOnly
    /\ arg \in [values : ValueLists]
    /\ result = NotCalled

DetectOutliers ==
    /\ ~result.done
    /\ result' = [done |-> TRUE, value |-> detect_outliers(arg.values)]
    /\ UNCHANGED <<arg, sessionVars, pageVars, hitVars, uiVars>>

NextOutliers == DetectOutliers

SpecOutliers == InitOutliers /\ [][NextOutliers]_vars

\* n times the distance of the value from the mean of the valid values, by sign
ScaledDeviation(values, v) ==
    LET valid == SelectSeq(values, LAMBDA w : w # NaN)
    IN Len(valid) * v - SumSeq(valid)

\* C19: detect_outliers returns one flag per value, never flags a missing value,
\* returns all-false when fewer than 3 values are valid or the valid values are all
\* equal, and otherwise flags a value iff its distance from the mean is strictly
\* greater than 3 standard deviations (population standard deviation of the valid
\* values): with d = v - mean, d^2 > 9 * sum(d_j^2) / n.
C19_Outliers ==
    result.done =>
        LET values == arg.values
            valid == SelectSeq(values, LAMBDA v : v # NaN)
            n == Len(valid)
            squares == SumSeq([j \in 1..n |-> ScaledDeviation(values, valid[j])
                                                * ScaledDeviation(values, valid[j])])
        IN /\ Len(result.value) = Len(values)
           /\ \A i \in 1..Len(values) : values[i] = NaN => ~result.value[i]
           /\ n < 3 \/ squares = 0 => \A i \in 1..Len(values) : ~result.value[i]
           /\ n >= 3 /\ squares # 0 =>
                 \A i \in 1..Len(values) :
                    values[i] # NaN =>
                       (result.value[i] <=>
                           n * ScaledDeviation(values, values[i])
                             * ScaledDeviation(values, values[i]) > 9 * squares)

\* a list with a missing value and eleven valid ones, of which one is flagged
C19_Witness ==
    /\ result.done
    /\ Len(arg.values) = 12
    /\ arg.values[1] = NaN
    /\ \E i \in 1..12 : result.value[i]

\* ten valid values of which one lies at exactly 3 standard deviations from the
\* mean: nothing is flagged
C19_AtThreeSigma ==
    /\ result.done
    /\ Len(arg.values) = 10
    /\ arg.values = [i \in 1..10 |-> IF i = 10 THEN 1 ELSE 0]
    /\ \A i \in 1..10 : ~result.value[i]

(***************************************************************************)
(* Data errors: what the generation functions do with input that holds no   *)
(* data.  An outcome records whether the call raised, the title of the      *)
(* message box it showed ("none" for no box) and the number of points,      *)
(* pairs or series it produced.                                             *)
(***************************************************************************)
Outcome(raised, shown, points) == [raised |-> raised, shown |-> shown, points |-> points]

\* MeasurementGraphGenerator.prepare_data() for any config.measurements
prepare_data_outcome(ms, grouped, graph_type) ==
    IF ms = <<>> THEN Outcome(TRUE, "none", 0)
    ELSE Outcome(FALSE, "none", prepare_data(ms, grouped, graph_type).total_points)

\* GraphPage._pair_with_manufacturer_data: the records whose device has an entry
\* in the manufacturer data
_pair_with_manufacturer_data(our_measurements, manufacturer_data) ==
    IF manufacturer_data = {} THEN <<>>
    ELSE SelectSeq(our_measurements,
                   LAMBDA m : /\ m.serial # None
                              /\ m.serial \in manufacturer_data
                              /\ m.measurement # NoNumber)

CompareByChoices ==
    {"Manufacturer", "Test Fixture", "First vs Last Test", "PIA Batch", "PMT Batch"}

\* GraphPage._generate_comparison_plots(y_measurements) up to the plots of the pairs
_generate_comparison_plots(y_measurements, compare_by, manufacturer_data) ==
    LET paired_data ==
            CASE compare_by = "Manufacturer" ->
                    _pair_with_manufacturer_data(y_measurements, manufacturer_data)
              [] compare_by = "Test Fixture" -> _pair_by_test_fixture(y_measurements)
              [] compare_by = "First vs Last Test" -> _pair_first_last_tests(y_measurements)
              [] OTHER -> _pair_by_batch(y_measurements)
    IN IF y_measurements = <<>> THEN Outcome(FALSE, "none", 0)
       ELSE IF paired_data = <<>> THEN Outcome(FALSE, "No Data", 0)
       ELSE Outcome(FALSE, "none", Len(paired_data))

\* GraphPage._generate_overlay_plot(measurements): one series per record that has
\* plot data; the widget is cached whatever the number of series
_generate_overlay_plot(ms) ==
    Outcome(FALSE, "none", Len(SelectSeq(ms, LAMBDA m : m.plot)))

InitDataErrors ==
    /\ CalcOnly
    /\ arg \in [fn : {"prepare_data"}, ms : RecordLists \cup {<<>>}, grouped : BOOLEAN,
                graph_type : DisplayTypes]
           \cup [fn : {"_generate_comparison_plots"},
                 ms : FixtureLists \cup FirstLastLists \cup BatchLists \cup {<<>>},
                 compare_by : CompareByChoices, manufacturer_data : SUBSET {"S1"}]
           \cup [fn : {"_generate_overlay_plot"}, ms : RecordLists \cup {<<>>}]
    /\ result = NotCalled

CallPrepareData ==
    /\ arg.fn = "prepare_data"
    /\ Returned(prepare_data_outcome(arg.ms, arg.grouped, arg.graph_type))

CallGenerateComparisonPlots ==
    /\ arg.fn = "_generate_comparison_plots"
    /\ Returned(_generate_comparison_plots(arg.ms, arg.compare_by, arg.manufacturer_data))

CallGenerateOverlayPlot ==
    /\ arg.fn = "_generate_overlay_plot"
    /\ Returned(_generate_overlay_plot(arg.ms))

NextDataErrors ==
    \/ CallPrepareData
    \/ CallGenerateComparisonPlots
    \/ CallGenerateOverlayPlot

SpecDataErrors == InitDataErrors /\ [][NextDataErrors]_vars

\* the pairs the selected comparison finds in the records
PairsFound ==
    CASE arg.compare_by = "Manufacturer" ->
            {i \in 1..Len(arg.ms) : /\ arg.ms[i].serial \in arg.manufacturer_data
                                    /\ arg.ms[i].measurement # NoNumber}
      [] arg.compare_by = "Test Fixture" -> DOMAIN FixturePoints(arg.ms, "first")
      [] arg.compare_by = "First vs Last Test" -> DOMAIN _pair_first_last_tests(arg.ms)
      [] OTHER -> DOMAIN _pair_by_batch(arg.ms)

\* C20: a data error never raises: prepare_data() of an empty measurement list, a
\* comparison that finds no paired data and an overlay over records without plot
\* data each return, with nothing produced; the comparison says "No Data".
C20_DataErrorsNeverRaise ==
    result.done =>
        /\ arg.fn = "prepare_data" /\ arg.ms = <<>> =>
              ~result.value.raised /\ result.value.points = 0
        /\ arg.fn = "_generate_comparison_plots" /\ arg.ms # <<>> /\ PairsFound = {} =>
              /\ ~result.value.raised
              /\ result.value.points = 0
              /\ result.value.shown = "No Data"
        /\ arg.fn = "_generate_overlay_plot" /\ (\A i \in 1..Len(arg.ms) : ~arg.ms[i].plot) =>
              ~result.value.raised /\ result.value.points = 0

\* the page's side of the data errors: a comparison without pairs and an overlay
\* without plot data return without raising
C20_PageDataErrors ==
    result.done /\ arg.fn \in {"_generate_comparison_plots", "_generate_overlay_plot"} =>
        /\ ~result.value.raised
        /\ arg.fn = "_generate_comparison_plots" /\ arg.ms # <<>> /\ PairsFound = {} =>
              result.value.points = 0 /\ result.value.shown = "No Data"
        /\ arg.fn = "_generate_overlay_plot" /\ (\A i \in 1..Len(arg.ms) : ~arg.ms[i].plot) =>
              result.value.points = 0

(***************************************************************************)
(* GraphConfig construction: the dataclass fields that __post_init__ reads  *)
(* and the validation it runs.  A measurement name is None, the empty       *)
(* string or a name.                                                        *)
(***************************************************************************)
ComparisonModes == {"NONE", "SAME_MEASUREMENT", "DIFFERENT_MEASUREMENTS"}
MeasurementNames == {None, "", "a", "b"}
PairingDevices == {"pia", "pmt"}
LegendPositions == {"top-left", "top-right", "bottom-left", "bottom-right"}
OpacityValues == {0 - 1, 0, 235, 255, 256}

\* `not value` of an Optional[str]
Falsy(value) == value \in {None, ""}

ConfigError == [raised |-> TRUE]
Constructed(c) == [raised |-> FALSE, config |-> c]

\* the checks of __post_init__ after the comparison block
ValidRest(c) ==
    /\ ~(c.enable_grouping_boxes /\ Falsy(c.group_by_field))
    /\ c.pairing_device \in PairingDevices
    /\ c.pairing_strategy \in Strategies
    /\ c.legend_position \in LegendPositions
    /\ 0 <= c.legend_bg_opacity /\ c.legend_bg_opacity <= 255

\* __post_init__ without the assignment of y_axis_measurement
post_init_no_autofill(c) ==
    IF c.comparison_mode # "NONE" /\ Falsy(c.x_axis_measurement) THEN ConfigError
    ELSE IF /\ c.comparison_mode = "SAME_MEASUREMENT"
            /\ ~Falsy(c.y_axis_measurement)
            /\ c.y_axis_measurement # c.x_axis_measurement THEN ConfigError
    ELSE IF c.comparison_mode = "DIFFERENT_MEASUREMENTS" /\ Falsy(c.y_axis_measurement)
    THEN ConfigError
    ELSE IF ~ValidRest(c) THEN ConfigError
    ELSE Constructed(c)

\* __post_init__ without the check of the opacity
post_init_any_opacity(c) ==
    IF c.comparison_mode # "NONE" /\ Falsy(c.x_axis_measurement) THEN ConfigError
    ELSE IF /\ c.comparison_mode = "SAME_MEASUREMENT"
            /\ ~Falsy(c.y_axis_measurement)
            /\ c.y_axis_measurement # c.x_axis_measurement THEN ConfigError
    ELSE IF c.comparison_mode = "DIFFERENT_MEASUREMENTS" /\ Falsy(c.y_axis_measurement)
    THEN ConfigError
    ELSE IF ~ValidRest([c EXCEPT !.legend_bg_opacity = 0]) THEN ConfigError
    ELSE Constructed(IF c.comparison_mode = "SAME_MEASUREMENT"
                     THEN [c EXCEPT !.y_axis_measurement = c.x_axis_measurement] ELSE c)

\* GraphConfig.__post_init__: ConfigError is the ValueError, Constructed the config
\* as it is after the constructor returned
__post_init__(c) ==
    IF c.comparison_mode # "NONE" /\ Falsy(c.x_axis_measurement) THEN ConfigError
    ELSE IF /\ c.comparison_mode = "SAME_MEASUREMENT"
            /\ ~Falsy(c.y_axis_measurement)
            /\ c.y_axis_measurement # c.x_axis_measurement THEN ConfigError
    ELSE IF c.comparison_mode = "DIFFERENT_MEASUREMENTS" /\ Falsy(c.y_axis_measurement)
    THEN ConfigError
    ELSE IF ~ValidRest(c) THEN ConfigError
    ELSE Constructed(IF c.comparison_mode = "SAME_MEASUREMENT"
                     THEN [c EXCEPT !.y_axis_measurement = c.x_axis_measurement] ELSE c)

ConfigArguments ==
    [comparison_mode : ComparisonModes,
     x_axis_measurement : MeasurementNames,
     y_axis_measurement : MeasurementNames,
     enable_grouping_boxes : BOOLEAN,
     group_by_field : {None, "test_fixture"},
     pairing_device : PairingDevices \cup {"other"},
     pairing_strategy : Strategies \cup {"other"},
     legend_position : LegendPositions \cup {"center"},
     legend_bg_opacity : OpacityValues]

InitConfig ==
    /\ CalcOnly
    /\ arg \in ConfigArguments
    /\ result = NotCalled

ConstructConfig == Returned(__post_init__(arg))

NextConfig == ConstructConfig

SpecConfig == InitConfig /\ [][NextConfig]_vars

\* C21: a config in different-measurements submode is constructed only if its
\* y-axis measurement is non-empty and distinct from its x-axis measurement; an
\* empty y, or a y equal to x, raises.
C21_DifferentMeasurements ==
    result.done /\ arg.comparison_mode = "DIFFERENT_MEASUREMENTS" =>
        /\ ~result.value.raised =>
              ~Falsy(arg.y_axis_measurement)
              /\ arg.y_axis_measurement # arg.x_axis_measurement
        /\ Falsy(arg.y_axis_measurement) \/ arg.y_axis_measurement = arg.x_axis_measurement
              => result.value.raised

\* an empty y-axis measurement is rejected in different-measurements submode
C21_EmptyYRejected ==
    result.done /\ arg.comparison_mode = "DIFFERENT_MEASUREMENTS"
        /\ Falsy(arg.y_axis_measurement) => result.value.raised

\* C22: in same-measurement submode a supplied y-axis measurement that differs from
\* the x-axis measurement raises, and every constructed same-measurement config has
\* its y-axis measurement equal to its x-axis measurement.
C22_SameMeasurement ==
    result.done /\ arg.comparison_mode = "SAME_MEASUREMENT" =>
        /\ ~Falsy(arg.y_axis_measurement) /\ arg.y_axis_measurement # arg.x_axis_measurement
              => result.value.raised
        /\ ~result.value.raised =>
              /\ result.value.config.y_axis_measurement = result.value.config.x_axis_measurement
              /\ result.value.config.x_axis_measurement = arg.x_axis_measurement

\* a same-measurement config whose caller left y empty was constructed and filled
C22_Witness ==
    /\ result.done
    /\ arg.comparison_mode = "SAME_MEASUREMENT"
    /\ arg.y_axis_measurement = None
    /\ ~result.value.raised
    /\ result.value.config.y_axis_measurement = "a"

\* C23: construction raises whenever a comparison submode is set without an x-axis
\* measurement, grouping boxes are enabled without a grouping field, the pairing
\* device is not pia or pmt, the pairing strategy is not first, last or best, the
\* legend position is not one of the four corners, or the legend opacity is
\* outside 0..255; no constructed config violates any of these rules.
C23_FailFast ==
    result.done =>
        LET Violates(c) ==
                \/ c.comparison_mode # "NONE" /\ c.x_axis_measurement \in {None, ""}
                \/ c.enable_grouping_boxes /\ c.group_by_field = None
                \/ c.pairing_device \notin {"pia", "pmt"}
                \/ c.pairing_strategy \notin {"first", "last", "best"}
                \/ c.legend_position
                     \notin {"top-left", "top-right", "bottom-left", "bottom-right"}
                \/ c.legend_bg_opacity < 0
                \/ c.legend_bg_opacity > 255
        IN /\ Violates(arg) => result.value.raised
           /\ ~result.value.raised => ~Violates(result.value.config)

\* the only violation is an opacity of 256, and construction raised
C23_WitnessRejected ==
    /\ result.done
    /\ result.value.raised
    /\ arg.legend_bg_opacity = 256
    /\ ValidRest([arg EXCEPT !.legend_bg_opacity = 255])
    /\ arg.comparison_mode = "NONE"

(***************************************************************************)
(* GraphGenerationWorker: run() in its thread and stop() from the GUI       *)
(* thread.  result is the worker: pc is the statement run() will execute    *)
(* next, progress the last value emitted on the progress signal, finished   *)
(* and error whether those signals were emitted, interruption_requested the *)
(* flag of QThread.requestInterruption(), which has no effect on a thread   *)
(* that is not running.  steps_after_stop counts the steps run() executed   *)
(* with the flag set.                                                       *)
(***************************************************************************)
WorkerConfigs ==
    [ms : {<<>>} \cup {ms \in RecordLists : Len(ms) <= 2},
     grouped : BOOLEAN,
     graph_type : DisplayTypes]

NewThread ==
    [pc |-> "created", progress |-> 0 - 1, finished |-> FALSE, error |-> FALSE,
     interruption_requested |-> FALSE, steps_after_stop |-> 0, items |-> 0]

InitWorker ==
    /\ CalcOnly
    /\ arg \in WorkerConfigs
    /\ result = NewThread

WorkerUnchanged == UNCHANGED <<arg, sessionVars, pageVars, hitVars, uiVars>>

IsRunning(w) == w.pc \notin {"created", "returned"}

\* one statement group of run(): from pc `from` to pc `to`, emitting progress
RunStep(from, to, progress) ==
    /\ result.pc = from
    /\ result' = [result EXCEPT
                     !.pc = to,
                     !.progress = progress,
                     !.steps_after_stop =
                         IF result.interruption_requested THEN @ + 1 ELSE @]
    /\ WorkerUnchanged

\* worker.start()
WorkerStart ==
    /\ result.pc = "created"
    /\ result' = [result EXCEPT !.pc = "init"]
    /\ WorkerUnchanged

\* progress.emit(0); self.generator = MeasurementGraphGenerator(config); progress.emit(10)
RunInit == RunStep("init", "prepare_data", 10)

\* self.generator.prepare_data(); progress.emit(20), or the except branch for the
\* ValueError of an empty measurement list
RunPrepareData ==
    IF prepare_data_outcome(arg.ms, arg.grouped, arg.graph_type).raised
    THEN /\ result.pc = "prepare_data"
         /\ result' = [result EXCEPT
                          !.pc = "returned",
                          !.error = TRUE,
                          !.steps_after_stop =
                              IF result.interruption_requested THEN @ + 1 ELSE @]
         /\ WorkerUnchanged
    ELSE RunStep("prepare_data", "create_plot_widget", 20)

RunCreatePlotWidget == RunStep("create_plot_widget", "plot_data", 40)

RunPlotData == RunStep("plot_data", "apply_styling", 60)

RunApplyStyling == RunStep("apply_styling", "setup_interactivity", 80)

RunSetupInteractivity == RunStep("setup_interactivity", "complete", 90)

\* progress.emit(100); finished.emit(plot_widget)
RunComplete ==
    /\ result.pc = "complete"
    /\ result' = [result EXCEPT
                     !.pc = "returned",
                     !.progress = 100,
                     !.finished = TRUE,
                     !.items = Len(_create_plot(arg.ms, arg.grouped, arg.graph_type, 1).items),
                     !.steps_after_stop =
                         IF result.interruption_requested THEN @ + 1 ELSE @]
    /\ WorkerUnchanged

\* stop() on a running worker: requestInterruption() sets the flag; quit() ends
\* the thread's event loop, of which run() has none
WorkerStop ==
    /\ IsRunning(result)
    /\ ~result.interruption_requested
    /\ result' = [result EXCEPT !.interruption_requested = TRUE]
    /\ WorkerUnchanged

NextWorker ==
    \/ WorkerStart
    \/ RunInit
    \/ RunPrepareData
    \/ RunCreatePlotWidget
    \/ RunPlotData
    \/ RunApplyStyling
    \/ RunSetupInteractivity
    \/ RunComplete
    \/ WorkerStop

SpecWorker == InitWorker /\ [][NextWorker]_vars

\* C24: after stop() is requested on a running worker, run() performs no further
\* step and does not emit finished with a plot.
C24_StopIsObserved ==
    result.interruption_requested =>
        result.steps_after_stop = 0 /\ ~result.finished

(***************************************************************************)
(* Signals of the database query worker.                                    *)
(***************************************************************************)
\* the finished signals of the worker of request w that wait in the GUI thread's
\* event queue
FinishedQueued(w) == {i \in 1..Len(queue) : queue[i].sig = "finished" /\ queue[i].w = w}

\* C25: DatabaseQueryWorker.run() emits finished exactly once per run on every path,
\* so that the page's query-finished handler runs once per query: no run leaves
\* two finished signals for the page to handle.
C25_FinishedOnce == \A w \in 1..MaxReq : Cardinality(FinishedQueued(w)) <= 1

(***************************************************************************)
(* Handler registrations and stored indices across deletion and undo.       *)
(***************************************************************************)
\* C26: after any number of undo operations a click on the plot is processed by the
\* click handler exactly once: undo does not add click or hover handler
\* registrations.
C26_HandlersDoNotAccumulate ==
    /\ ui.g.click_handlers = 1
    /\ ui.g.hover_handlers <= 1

\* the step deletes the point (item, index) d
Deletes(d) == d \in ui'.g.deleted_items \ ui.g.deleted_items

\* the stored reference (item, index) designates after the step the record it
\* designated before, or is cleared
KeepsRecord(item, index, item_after, index_after) ==
    \/ item_after = NoItem
    \/ /\ <<item_after, index_after>> \in DOMAIN ui'.g.point_measurement_map
       /\ <<item, index>> \in DOMAIN ui.g.point_measurement_map
       /\ ui'.g.point_measurement_map[<<item_after, index_after>>]
            = ui.g.point_measurement_map[<<item, index>>]

\* C27: when a point is selected (or hovered) and a different point of the same
\* collection is deleted, the selection (hover) afterwards designates the same
\* measurement record as before, or is cleared.
C27_ReferencesFollowDeletion ==
    [][\A d \in ui'.g.deleted_items \ ui.g.deleted_items :
          /\ (ui.g.selected_item = d[1] /\ ui.g.selected_index # d[2]) =>
                KeepsRecord(ui.g.selected_item, ui.g.selected_index,
                            ui'.g.selected_item, ui'.g.selected_index)
          /\ (ui.g.hover_item = d[1] /\ ui.g.hover_index # d[2]) =>
                KeepsRecord(ui.g.hover_item, ui.g.hover_index,
                            ui'.g.hover_item, ui'.g.hover_index)]_vars

(***************************************************************************)
(* The plot cache when a plot cannot be created.  A record is a scalar      *)
(* record or one with plot data; the measurement of a scalar record may be  *)
(* None, which _extract_standard_data turns into NaN.  np.histogram raises  *)
(* ValueError for values that include NaN (the range is not finite), and    *)
(* _create_plot returns None for any exception.                             *)
(*                                                                          *)
(* result is the page: its cache, the displayed plot, the combo box text,   *)
(* whether generate_graphs showed its error box, and whether a slot raised. *)
(***************************************************************************)
NoneWidget == [req |-> 0, mode |-> "None", key |-> "None"]

CacheLists ==
    UNION {[1..n -> [plot : BOOLEAN, valued : BOOLEAN]] : n \in 1..MaxMeas}

\* the histogram values hold NaN: a record without plot data has no measurement
HistogramRaises(ms) == \E i \in 1..Len(ms) : ~ms[i].plot /\ ~ms[i].valued

\* GraphPage._create_plot(config) with its except branch
_create_plot_or_none(ms, graph_type) ==
    IF graph_type = "Histogram" /\ HistogramRaises(ms) THEN NoneWidget
    ELSE PlotWidget(1, "Standard", graph_type)

\* display_plot(plot_widget): current_plot is assigned before setParent is called
\* on the widget, which raises AttributeError on None
display_plot_or_raise(page, plot_widget) ==
    [page EXCEPT !.current_plot = plot_widget,
                 !.raised = (plot_widget = NoneWidget)]

InitCache ==
    /\ CalcOnly
    /\ arg \in [ms : CacheLists]
    /\ \E combo_text \in DisplayTypes :
          result = [generated |-> FALSE, cached_plots |-> <<>>, current_plot |-> NoPlot,
                    combo |-> combo_text, error_shown |-> FALSE, raised |-> FALSE]

\* generate_graphs(measurements) in standard mode: clear_cached_plots(),
\* _generate_standard_plots() and _display_default_plot(); an exception of
\* display_plot is caught and shown as "Failed to generate graph"
GenerateGraphsStandard ==
    /\ ~result.generated
    /\ LET cache == [k \in DisplayTypes |-> _create_plot_or_none(arg.ms, k)]
           shown == display_plot_or_raise(result, cache[result.combo])
       IN result' = [result EXCEPT !.generated = TRUE,
                                   !.cached_plots = cache,
                                   !.current_plot = shown.current_plot,
                                   !.error_shown = shown.raised]
    /\ WorkerUnchanged

\* on_display_type_changed(display_type): the user picks another display type
DisplayTypeChanged(display_type) ==
    /\ ~result.raised
    /\ display_type # result.combo
    /\ result' = IF display_type \in DOMAIN result.cached_plots
                 THEN [display_plot_or_raise(result, result.cached_plots[display_type])
                          EXCEPT !.combo = display_type]
                 ELSE [result EXCEPT !.combo = display_type]
    /\ WorkerUnchanged

NextCache ==
    \/ GenerateGraphsStandard
    \/ \E display_type \in DisplayTypes : DisplayTypeChanged(display_type)

SpecCache == InitCache /\ [][NextCache]_vars

\* C28: every value stored in the plot cache is a displayable plot, and switching to
\* a key of the cache displays a plot and never fails.
C28_CacheHoldsPlots ==
    /\ \A k \in DOMAIN result.cached_plots : result.cached_plots[k] # NoneWidget
    /\ ~result.raised
    /\ ~result.error_shown

(***************************************************************************)
(* Comparison plots: the paired data a plot keeps, the scatter collections  *)
(* drawn from it and the tooltip and point menu of a click.  A paired-data  *)
(* entry is its device id and its group; the x-axis field is the index, so  *)
(* that dumbbell and difference plots sort the entries by device id.  Of a  *)
(* collection, entries holds for every point the paired-data entry it was   *)
(* drawn from.                                                              *)
(***************************************************************************)
\* the largest number of paired-data entries of a comparison plot
MaxPairs == 3

ComparisonTypes == {"dumbbell", "correlation", "difference"}
\* the group values in sorted order
PairGroups == <<"A", "B">>

NoPair == [device_id |-> 0, group |-> "none"]
NoClick == [item |-> 0, idx |-> 0 - 1, button |-> "none"]

\* lists of entries with distinct device ids 1..n in any order
PairedLists ==
    UNION {{q \in [1..n -> [device_id : 1..n, group : SeqToSet(PairGroups)]] :
               \A i, j \in 1..n : i # j => q[i].device_id # q[j].device_id} :
           n \in 1..MaxPairs}

\* sorted(paired_data, key=lambda p: p['device_id'])
SortedByDevice(paired_data) ==
    [i \in 1..Len(paired_data) |->
        CHOOSE p \in SeqToSet(paired_data) :
            Cardinality({q \in SeqToSet(paired_data) : q.device_id < p.device_id}) = i - 1]

\* the 0-based positions of the entries of a group, and all positions
GroupIndices(data, group) ==
    LET at == SelectSeq([i \in 1..Len(data) |-> i], LAMBDA i : data[i].group = group)
    IN [k \in 1..Len(at) |-> at[k] - 1]

\* a ScatterPlotItem drawn from the entries at the given positions of the data
Collection(data, indices, data_type) ==
    [paired_indices |-> indices,
     data_type |-> data_type,
     entries |-> [k \in 1..Len(indices) |-> data[indices[k] + 1]]]

\* the scatter collections of a comparison plot in the order they are added: one
\* per group in sorted group order when grouping is on, else one of all entries;
\* a dumbbell plot adds the 'our' and the 'other' collection each time
ComparisonItems(data, grouped, plot_type) ==
    LET present == SelectSeq(PairGroups, LAMBDA g : \E i \in 1..Len(data) : data[i].group = g)
        all == [i \in 1..Len(data) |-> i - 1]
        indices == IF grouped THEN [k \in 1..Len(present) |-> GroupIndices(data, present[k])]
                   ELSE <<all>>
    IN IF plot_type = "dumbbell"
       THEN [k \in 1..(2 * Len(indices)) |->
                Collection(data, indices[(k + 1) \div 2],
                           IF k % 2 = 1 THEN "our" ELSE "other")]
       ELSE [k \in 1..Len(indices) |-> Collection(data, indices[k], "unknown")]

\* _create_dumbbell_plot, _create_correlation_plot, _create_difference_plot_v2: the
\* paired data the widget keeps and its collections
ComparisonPlot(paired_data, grouped, plot_type) ==
    LET kept == IF plot_type = "correlation" THEN paired_data
                ELSE SortedByDevice(paired_data)
    IN [paired_data |-> kept,
        items |-> ComparisonItems(kept, grouped, plot_type),
        tooltip |-> NoPair,
        menu |-> NoPair,
        click |-> NoClick]

\* _show_comparison_tooltip(item, idx, plot_widget): the pair the tooltip describes
_show_comparison_tooltip(w, item, idx) ==
    IF idx >= Len(w.paired_data) THEN w
    ELSE [w EXCEPT !.tooltip = w.paired_data[idx + 1]]

\* _show_comparison_point_menu(event, item, idx, plot_widget): the pair the menu acts on
_show_comparison_point_menu(w, item, idx) ==
    IF idx >= Len(w.paired_data) THEN w
    ELSE [w EXCEPT !.menu = w.paired_data[idx + 1]]

InitComparison ==
    /\ CalcOnly
    /\ arg \in [paired_data : PairedLists, grouped : BOOLEAN, plot_type : ComparisonTypes]
    /\ result = [created |-> FALSE]

\* the plot is created and its interactivity set up
CreateComparisonPlot ==
    /\ ~result.created
    /\ result' = [created |-> TRUE,
                  w |-> ComparisonPlot(arg.paired_data, arg.grouped, arg.plot_type)]
    /\ WorkerUnchanged

\* on_mouse_clicked with the cursor on the point idx of a collection: the nearest
\* point is that point
ComparisonPointClicked(item, idx, button) ==
    /\ result.created
    /\ item \in 1..Len(result.w.items)
    /\ idx \in 0..(Len(result.w.items[item].entries) - 1)
    /\ LET cleared == [result.w EXCEPT
                          !.click = [item |-> item, idx |-> idx, button |-> button],
                          !.tooltip = NoPair, !.menu = NoPair]
       IN result' = [result EXCEPT !.w =
                        IF button = "right"
                        THEN _show_comparison_point_menu(cleared, item, idx)
                        ELSE _show_comparison_tooltip(cleared, item, idx)]
    /\ WorkerUnchanged

NextComparison ==
    \/ CreateComparisonPlot
    \/ \E item \in 1..(2 * MaxPairs), idx \in 0..(MaxPairs - 1), button \in MouseButtons :
          ComparisonPointClicked(item, idx, button)

SpecComparison == InitComparison /\ [][NextComparison]_vars

\* C29: for every point of a comparison plot the tooltip and the point menu describe
\* the paired-data entry the point was drawn from, also when grouping splits the
\* points over several collections.
C29_TooltipDescribesPoint ==
    result.created /\ result.w.click # NoClick =>
        LET drawn == result.w.items[result.w.click.item].entries[result.w.click.idx + 1]
        IN /\ result.w.click.button = "left" => result.w.tooltip = drawn
           /\ result.w.click.button = "right" => result.w.menu = drawn

\* without grouping the tooltip and the menu describe the entry of the point
C29_Ungrouped ==
    result.created /\ result.w.click # NoClick /\ ~arg.grouped =>
        LET drawn == result.w.items[result.w.click.item].entries[result.w.click.idx + 1]
        IN /\ result.w.click.button = "left" => result.w.tooltip = drawn
           /\ result.w.click.button = "right" => result.w.menu = drawn

(***************************************************************************)
(* Relational mode: the Y-then-X query chain of a generation request.       *)
(* The page is the record in result.  The worker of request r's Y query is  *)
(* worker r, the worker of its X query is worker MaxReq + r.  A QThread     *)
(* runs its event loop until quit() is called, so a thread field refers to  *)
(* a running thread until its cleanup.  Message boxes are taken as          *)
(* dismissed at once.                                                       *)
(***************************************************************************)
YWorker(r) == r
XWorker(r) == MaxReq + r
IsXWorker(w) == w > MaxReq
RequestOf(w) == IF IsXWorker(w) THEN w - MaxReq ELSE w

ChainAtStart ==
    [nreq |-> 0,
     progress_dialog |-> [req |-> 0, visible |-> FALSE, maximum |-> 0, value |-> 0],
     query_thread |-> 0,
     x_query_thread |-> 0,
     workers |-> <<>>,
     queue |-> <<>>,
     pending_y |-> 0,
     stack |-> <<>>,
     cached_plots |-> clear_cached_plots,
     current_plot |-> NoPlot,
     outcome |-> [r \in 1..MaxReq |-> {}],
     crashed |-> FALSE]

InitChain ==
    /\ CalcOnly
    /\ arg = [current_mode |-> "Relational", combo |-> "Scatter"]
    /\ result = ChainAtStart

\* a notice (show_info "No Data", show_error) or the displayed plots of a request
WithOutcome(page, r, what) ==
    [page EXCEPT !.outcome[r] = page.outcome[r] \cup {what}]

\* cleanup_query_thread(): quit() and wait() return once run() of the thread that
\* self.query_thread refers to has ended
CanCleanupQueryThread == result.query_thread \notin DOMAIN result.workers

\* on_generate_graph in relational mode with both measurements selected, and
\* query_both_measurements.  total is the number of rows of the Y statement.  The
\* assignment self.query_thread = QThread() drops the last reference to a thread
\* that is still running, and Qt aborts the process.
QueryBothMeasurements(total) ==
    /\ ~result.crashed
    /\ ~result.progress_dialog.visible
    /\ result.nreq < MaxReq
    /\ LET r == result.nreq + 1
           shown == [result EXCEPT
                        !.nreq = r,
                        !.progress_dialog = [req |-> r, visible |-> TRUE,
                                             maximum |-> DialogMaximum, value |-> 0],
                        !.cached_plots = clear_cached_plots]
       IN result' = IF result.query_thread = 0
                    THEN [shown EXCEPT
                             !.workers = AddWorker(result.workers, YWorker(r), NewWorker(total)),
                             !.query_thread = YWorker(r)]
                    ELSE [shown EXCEPT !.crashed = TRUE]
    /\ WorkerUnchanged

\* Cancel on the progress dialog: the dialog hides; canceled is connected to
\* cancel() of the Y worker only
ChainCancelClicked ==
    /\ ~result.crashed
    /\ result.progress_dialog.visible
    /\ result' = [result EXCEPT
                     !.progress_dialog = ResetDialog(result.progress_dialog),
                     !.workers = [w \in DOMAIN result.workers |->
                                     IF w = YWorker(result.progress_dialog.req)
                                     THEN [result.workers[w] EXCEPT !.cancel = TRUE]
                                     ELSE result.workers[w]]]
    /\ WorkerUnchanged

\* the signals of a worker that reach a slot: init_progress and
\* increment_progress of the X worker are not connected
Connected(w, signals) == SelectSeq(signals, LAMBDA s : s.sig \in {"finished", "error"} \/ ~IsXWorker(w))

\* DatabaseQueryWorker.run, the count query.  fails: the query raises, error(str)
\* is emitted and the finally block emits finished([]).  With no row finished is
\* emitted in the branch and again in the finally block.
ChainWorkerCount(w, fails) ==
    /\ ~result.crashed
    /\ w \in DOMAIN result.workers
    /\ result.workers[w].state = "counting"
    /\ LET total == result.workers[w].total
           emitted == IF fails
                      THEN <<Signal("error", w, 0), Signal("finished", w, 0)>>
                      ELSE <<Signal("init", w, total)>> \o
                           (IF total = 0
                            THEN <<Signal("finished", w, 0), Signal("finished", w, 0)>>
                            ELSE <<>>)
       IN result' = [result EXCEPT
                        !.queue = result.queue \o Connected(w, emitted),
                        !.workers = IF fails \/ total = 0 THEN EndWorker(result.workers, w)
                                    ELSE [result.workers EXCEPT ![w].state = "loop"]]
    /\ WorkerUnchanged

\* DatabaseQueryWorker.run, one turn of the row loop; sees tells whether the write
\* of _cancel has reached the worker when it tests the flag
ChainWorkerRow(w, sees) ==
    /\ ~result.crashed
    /\ w \in DOMAIN result.workers
    /\ result.workers[w].state = "loop"
    /\ sees => result.workers[w].cancel /\ result.workers[w].loaded < result.workers[w].total
    /\ LET worker == result.workers[w]
       IN result' = IF worker.loaded = worker.total \/ sees
                    THEN [result EXCEPT
                             !.workers = EndWorker(result.workers, w),
                             !.queue = Append(result.queue, Signal("finished", w, worker.loaded))]
                    ELSE [result EXCEPT
                             !.workers[w].loaded = worker.loaded + 1,
                             !.queue = result.queue \o Connected(w, <<Signal("inc", w, 0)>>)]
    /\ WorkerUnchanged

\* the GUI thread handles the oldest queued signal
ChainHandles(sig) ==
    ~result.crashed /\ result.queue # <<>> /\ Head(result.queue).sig = sig

\* on_query_progress_init(total), on the dialog made last
ChainProgressInit ==
    /\ ChainHandles("init")
    /\ result' = [result EXCEPT
                     !.queue = Tail(result.queue),
                     !.progress_dialog = on_query_progress_init(result.progress_dialog,
                                                                Head(result.queue).n)]
    /\ WorkerUnchanged

\* on_query_progress_increment(), on the dialog made last
ChainProgressIncrement ==
    /\ ChainHandles("inc")
    /\ result' = [result EXCEPT
                     !.queue = Tail(result.queue),
                     !.progress_dialog = on_query_progress_increment(result.progress_dialog)]
    /\ WorkerUnchanged

\* on_query_error(error_msg), the slot of the error signal of the Y and of the X
\* worker: cleanup_query_thread(), the dialog closes, "Database Error" is shown
OnQueryError ==
    /\ ChainHandles("error")
    /\ CanCleanupQueryThread
    /\ result' = WithOutcome([result EXCEPT
                                 !.queue = Tail(result.queue),
                                 !.query_thread = 0,
                                 !.progress_dialog = Hidden(result.progress_dialog)],
                             RequestOf(Head(result.queue).w), "error")
    /\ WorkerUnchanged

\* on_y_query_finished(y_measurements): cleanup_query_thread(); an empty list closes
\* the dialog and shows "No Data"; otherwise the list is kept and the X query starts
\* on a new thread.  total is the number of rows of the X statement.  The assignment
\* self.x_query_thread = QThread() drops the last reference to an X thread that is
\* still running, and Qt aborts the process.
OnYQueryFinished(total) ==
    /\ ChainHandles("finished")
    /\ ~IsXWorker(Head(result.queue).w)
    /\ CanCleanupQueryThread
    /\ LET r == RequestOf(Head(result.queue).w)
           cleaned == [result EXCEPT !.queue = Tail(result.queue), !.query_thread = 0]
       IN result' =
            IF Head(result.queue).n = 0
            THEN WithOutcome([cleaned EXCEPT
                                 !.progress_dialog = Hidden(result.progress_dialog)],
                             r, "no_data")
            ELSE IF result.x_query_thread = 0
            THEN [cleaned EXCEPT
                     !.pending_y = r,
                     !.workers = AddWorker(result.workers, XWorker(r), NewWorker(total)),
                     !.x_query_thread = XWorker(r)]
            ELSE [cleaned EXCEPT !.pending_y = r, !.crashed = TRUE]
    /\ WorkerUnchanged

\* on_x_query_finished(x_measurements): the X thread the page refers to is quit and
\* waited for; an empty list closes the dialog and shows "No Data"; otherwise
\* generate_graphs(self._pending_y_measurements, x_measurements) starts and runs up
\* to its first processEvents()
OnXQueryFinished ==
    /\ ChainHandles("finished")
    /\ IsXWorker(Head(result.queue).w)
    /\ result.x_query_thread \notin DOMAIN result.workers
    /\ LET r == RequestOf(Head(result.queue).w)
           cleaned == [result EXCEPT !.queue = Tail(result.queue), !.x_query_thread = 0]
       IN result' =
            IF Head(result.queue).n = 0
            THEN WithOutcome([cleaned EXCEPT
                                 !.progress_dialog = Hidden(result.progress_dialog)],
                             r, "no_data")
            ELSE [cleaned EXCEPT
                     !.stack = Append(result.stack, [req |-> result.pending_y, pc |-> "label"])]
    /\ WorkerUnchanged

\* the processEvents() call of the innermost generate_graphs() activation has
\* handled every queued event and returns
ChainResumes(pc) ==
    /\ ~result.crashed
    /\ result.stack # <<>>
    /\ result.stack[Len(result.stack)].pc = pc
    /\ result.queue = <<>>

\* the end of generate_graphs: the dialog made last is closed and
\* _display_default_plot() shows the cached plot of the combo box's text, if any
EndGeneration(page) ==
    LET r == page.stack[Len(page.stack)].req
        shown == _display_default_plot(page.cached_plots, page.current_plot, arg.combo)
        closed == [page EXCEPT
                      !.progress_dialog = Hidden(page.progress_dialog),
                      !.current_plot = shown,
                      !.stack = SubSeq(page.stack, 1, Len(page.stack) - 1)]
    IN IF arg.combo \in DOMAIN page.cached_plots /\ shown.req = r
       THEN WithOutcome(closed, r, "plots") ELSE closed

\* generate_graphs after its processEvents(): clear_cached_plots(), then
\* _generate_relational_plots up to its first processEvents().  paired tells whether
\* _pair_measurements finds a device with both measurements; if not, "No Data" is
\* shown and generate_graphs ends.
GenerateRelational(paired) ==
    /\ ChainResumes("label")
    /\ LET cleared == [result EXCEPT !.cached_plots = clear_cached_plots]
           r == result.stack[Len(result.stack)].req
       IN result' = IF paired
                    THEN [cleared EXCEPT !.stack[Len(result.stack)].pc = "scatter"]
                    ELSE EndGeneration(WithOutcome(cleared, r, "no_data"))
    /\ WorkerUnchanged

\* the relational scatter plot is created and cached; the code reaches the next
\* processEvents()
GenerateRelationalScatter ==
    /\ ChainResumes("scatter")
    /\ LET r == result.stack[Len(result.stack)].req
       IN result' = [result EXCEPT
                        !.cached_plots = StorePlot(result.cached_plots, "Scatter",
                                                   PlotWidget(r, "Relational", "Scatter")),
                        !.stack[Len(result.stack)].pc = "line"]
    /\ WorkerUnchanged

\* the relational line plot is created and cached, and generate_graphs ends
GenerateRelationalLine ==
    /\ ChainResumes("line")
    /\ LET r == result.stack[Len(result.stack)].req
       IN result' = EndGeneration(
                        [result EXCEPT
                            !.cached_plots = StorePlot(result.cached_plots, "Line",
                                                       PlotWidget(r, "Relational", "Line"))])
    /\ WorkerUnchanged

\* the steps of the worker threads
ChainWorkerStep ==
    \/ \E w \in 1..(2 * MaxReq), fails \in BOOLEAN : ChainWorkerCount(w, fails)
    \/ \E w \in 1..(2 * MaxReq), sees \in BOOLEAN : ChainWorkerRow(w, sees)

\* the steps of the GUI thread that need no input of the user
ChainGuiStep ==
    \/ ChainProgressInit
    \/ ChainProgressIncrement
    \/ OnQueryError
    \/ \E total \in 0..MaxRows : OnYQueryFinished(total)
    \/ OnXQueryFinished
    \/ \E paired \in BOOLEAN : GenerateRelational(paired)
    \/ GenerateRelationalScatter
    \/ GenerateRelationalLine

NextChain ==
    \/ \E total \in 0..MaxRows : QueryBothMeasurements(total)
    \/ ChainCancelClicked
    \/ ChainWorkerStep
    \/ ChainGuiStep

SpecChain == InitChain /\ [][NextChain]_vars

\* the worker threads are scheduled and the GUI thread's event loop runs; the user
\* is not obliged to do anything
SpecChainFair == SpecChain /\ WF_vars(ChainWorkerStep) /\ WF_vars(ChainGuiStep)

\* request r has reached a terminal outcome, its progress dialog is closed and its
\* query threads are released
ChainTerminal(r) ==
    /\ result.outcome[r] # {}
    /\ result.progress_dialog.req = r => ~result.progress_dialog.visible
    /\ result.query_thread # YWorker(r)
    /\ result.x_query_thread # XWorker(r)

\* C30: every generation request started by on_generate_graph eventually reaches a
\* terminal outcome (plots displayed, "No Data" or an error notice) with the progress
\* dialog closed and the query thread released, under fair scheduling.
C30_RequestsEnd ==
    \A r \in 1..MaxReq : [](result.nreq >= r => <>ChainTerminal(r))

\* a request ends in this way unless a later request replaces it before it ends
C30_LoneRequestEnds ==
    [](result.nreq = 1 => <>(ChainTerminal(1) \/ result.nreq > 1))

(***************************************************************************)
(* The single-query modes under the same scheduling assumptions.            *)
(***************************************************************************)
PageWorkerStep ==
    \/ \E w \in 1..MaxReq : WorkerCount(w)
    \/ \E w \in 1..MaxReq, sees \in BOOLEAN : WorkerRow(w, sees)

PageGuiStep ==
    \/ OnQueryProgressInit
    \/ OnQueryProgressIncrement
    \/ OnQueryFinished
    \/ GenerateGraphs
    \/ GenerateScatter
    \/ GenerateLine
    \/ GenerateHistogram
    \/ GenerateOverlay

SpecPageFair == SpecPage /\ WF_vars(PageWorkerStep) /\ WF_vars(PageGuiStep)

\* the query and the generation of request r are over, its progress dialog is
\* closed and its query thread is released
PageTerminal(r) ==
    /\ r \notin InFlight
    /\ progress_dialog.req = r => ~progress_dialog.visible
    /\ query_thread # r

\* in a single-query mode every request ends in this way, or the process is aborted
SingleQueryEndsUnlessAborted ==
    \A r \in 1..MaxReq : [](nreq >= r => <>(PageTerminal(r) \/ crashed))

====
